---- MODULE Spec2Model ----
(***************************************************************************)
(* Task lifecycle and history-tracking engine (services/task/taskRules):   *)
(* the in-memory task store, the append-only history log and the           *)
(* operations taskCreate, taskUpdate, taskDelete, taskUpdateStatus,         *)
(* taskCheckOverdue, taskList, taskGet and taskGetHistory, with the        *)
(* request handlers listHandler and getHistoryHandler.                     *)
(*                                                                         *)
(* Text values are TLA+ strings.  The accented identifiers of the source   *)
(* are written without accents: "Concluida" is TaskStatus.Concluída,       *)
(* "Media" is TaskImportance.Média, "Criacao", "Edicao", "Alteracao de     *)
(* Status", "Exclusao" are the change kinds and "Automatica" the origin;   *)
(* "Importancia", "Data de criacao", "Este mes", "Proximas ao vencimento"  *)
(* and "Concluidas" are the query values 'Importância', 'Data de criação', *)
(* 'Este mês', 'Próximas ao vencimento' and 'Concluídas'.                  *)
(* Instants are seconds of naive local time since 01/01/1970 00:00:00; the *)
(* millisecond part of a JavaScript Date is not modelled.                  *)
(***************************************************************************)
EXTENDS Integers, Sequences, FiniteSets, TLC

VARIABLES
    tasks,      \* const tasks: TaskEntity[]
    history,    \* const history: HistoryEntry[]
    now,        \* the wall clock read by new Date()
    nextUuid,   \* the next value uuidv4() returns
    opCount,    \* number of service calls made so far
    last,       \* the last service call: its arguments, its outcome, its time
    preTasks,   \* tasks as the last service call found it
    preHistory, \* history as the last service call found it
    query,      \* the last read of the store: its arguments and what it returned
    queue,      \* the calls suspended at an await, in the order they resume
    started     \* the calls made while calls may be suspended, in the order made

vars == <<tasks, history, now, nextUuid, opCount, last, preTasks, preHistory,
          query, queue, started>>

-----------------------------------------------------------------------------
(* Bounds of the model *)

\* service calls in one behaviour
MaxOps == 3
\* tasks created in one behaviour
MaxTasks == 2
\* service calls in one behaviour in which calls may be suspended
MaxAsyncOps == 4

-----------------------------------------------------------------------------
(* JavaScript values *)

\* null: a value that is no text of the model
Null == "<null>"

\* truthiness of a string | null value: null and "" are falsy
Truthy(v) == v # Null /\ v # ""

\* String(v) for a string | null value
String(v) == IF v = Null THEN "null" ELSE v

IsSpace(c) == c \in {" ", "\t", "\n", "\r"}

RECURSIVE TrimStart(_)
TrimStart(s) ==
    IF Len(s) > 0 /\ IsSpace(SubSeq(s, 1, 1))
    THEN TrimStart(SubSeq(s, 2, Len(s)))
    ELSE s

RECURSIVE TrimEnd(_)
TrimEnd(s) ==
    IF Len(s) > 0 /\ IsSpace(SubSeq(s, Len(s), Len(s)))
    THEN TrimEnd(SubSeq(s, 1, Len(s) - 1))
    ELSE s

\* String.prototype.trim
Trim(s) == TrimEnd(TrimStart(s))

RECURSIVE Repeat(_, _)
Repeat(c, n) ==
    IF n = 0 THEN ""
    ELSE IF n % 2 = 0 THEN LET h == Repeat(c, n \div 2) IN h \o h
    ELSE Repeat(c, n - 1) \o c

Digit(c) ==
    CASE c = "0" -> 0 [] c = "1" -> 1 [] c = "2" -> 2 [] c = "3" -> 3
      [] c = "4" -> 4 [] c = "5" -> 5 [] c = "6" -> 6 [] c = "7" -> 7
      [] c = "8" -> 8 [] c = "9" -> 9

\* Number(s) for a string of decimal digits
RECURSIVE Number(_)
Number(s) ==
    IF Len(s) = 0 THEN 0
    ELSE Number(SubSeq(s, 1, Len(s) - 1)) * 10 + Digit(SubSeq(s, Len(s), Len(s)))

\* s.split(sep) for a one-character separator
RECURSIVE SplitFrom(_, _, _, _)
SplitFrom(s, sep, i, start) ==
    IF i > Len(s) THEN <<SubSeq(s, start, Len(s))>>
    ELSE IF SubSeq(s, i, i) = sep
         THEN <<SubSeq(s, start, i - 1)>> \o SplitFrom(s, sep, i + 1, i + 1)
         ELSE SplitFrom(s, sep, i + 1, start)

Split(s, sep) == SplitFrom(s, sep, 1, 1)

-----------------------------------------------------------------------------
(* JavaScript Date, in seconds of local time *)

\* day number (days since 01/01/1970) of the first day of month index mi
\* (0 = January; any integer) of year y, as MakeDay computes it
DayFromYearMonth(y, mi) ==
    LET ym  == y + (mi \div 12)
        mn  == (mi % 12) + 1
        yy  == IF mn <= 2 THEN ym - 1 ELSE ym
        era == yy \div 400
        yoe == yy - era * 400
        mp  == IF mn > 2 THEN mn - 3 ELSE mn + 9
        doy == (153 * mp + 2) \div 5
        doe == yoe * 365 + (yoe \div 4) - (yoe \div 100) + doy
    IN  era * 146097 + doe - 719468

\* new Date(year, monthIndex, day): local midnight; years 0..99 mean 1900..1999
NewDate(year, monthIndex, day) ==
    LET y == IF year >= 0 /\ year <= 99 THEN 1900 + year ELSE year
    IN  (DayFromYearMonth(y, monthIndex) + day - 1) * 86400

\* const [day, month, year] = s.split('/').map(Number); new Date(year, month - 1, day)
ParseDueDate(s) ==
    LET p == Split(s, "/")
    IN  NewDate(Number(p[3]), Number(p[2]) - 1, Number(p[1]))

\* d.setHours(hours, minutes[, seconds]) on a Date d that is a local midnight
SetHours(d, hours, minutes, seconds) == d + hours * 3600 + minutes * 60 + seconds

\* const [hours, minutes] = s.split(':').map(Number); d.setHours(hours, minutes)
SetHoursFromText(d, s) ==
    LET p == Split(s, ":")
    IN  SetHours(d, Number(p[1]), Number(p[2]), 0)

\* today.setHours(0, 0, 0, 0)
StartOfDay(t) == t - (t % 86400)

-----------------------------------------------------------------------------
(* Types (taskTypes) *)

Pendente == "Pendente"
Concluida == "Concluida"
Vencida == "Vencida"

TaskStatus == {Pendente, Concluida, Vencida}

TaskImportance == {"Alta", "Media", "Baixa"}

-----------------------------------------------------------------------------
(* Inputs of the model *)

\* two consecutive calendar days, across a month boundary
Day1 == "28/02/2025"
Day2 == "01/03/2025"

\* the instants at which the clock is read
Moments ==
    { SetHours(ParseDueDate(Day1), 10, 0, 0),
      SetHours(ParseDueDate(Day1), 23, 59, 59),
      SetHours(ParseDueDate(Day2), 0, 0, 0) }

FirstMoment == CHOOSE m \in Moments : \A n \in Moments : m <= n

Request(t, d, dv, hv, i) ==
    [titulo |-> t, descricao |-> d, dataVencimento |-> dv,
     horaVencimento |-> hv, importancia |-> i]

\* requests that fail validation: an empty and a blank title, a title of 101
\* characters, a description of 501 characters
InvalidRequests ==
    { Request("", Null, Null, Null, "Alta"),
      Request("  ", Null, Null, Null, "Alta"),
      Request(Repeat("x", 101), Null, Null, Null, "Alta"),
      Request("a", Repeat("y", 501), Null, Null, "Alta") }

\* the request most tasks are created with
BaseRequest == Request("a", Null, Day1, "10:00", "Alta")

\* tasks due on the first day at 10:00, on the first day with no due-time, on
\* the second day, with no due-date, and one at the limits of the lengths
CreateRequests ==
    { BaseRequest,
      Request("a", Null, Day1, Null, "Alta"),
      Request("a", Null, Day2, Null, "Alta"),
      Request("a", Null, Null, Null, "Alta"),
      Request(Repeat("x", 100), Repeat("y", 500), Null, Null, "Media") }
    \cup InvalidRequests

\* the base request, the base request with one field changed (each of the five
\* in turn), with the due-date and due-time removed, with three fields changed
\* and with all five changed
UpdateRequests ==
    { BaseRequest,
      Request("b", Null, Day1, "10:00", "Alta"),
      Request("a", "d", Day1, "10:00", "Alta"),
      Request("a", Null, Day2, "10:00", "Alta"),
      Request("a", Null, Day1, Null, "Alta"),
      Request("a", Null, Day1, "10:00", "Baixa"),
      Request("a", Null, Null, Null, "Alta"),
      Request("b", "d", Day1, "10:00", "Baixa"),
      Request("b", "d", Day2, Null, "Baixa") }
    \cup InvalidRequests

\* the statuses updateStatusHandler passes to taskUpdateStatus
StatusRequests == {Pendente, Concluida}

\* the request sent with an identifier that is not in the store
UnknownIdRequests == { Request("b", "d", Day2, Null, "Baixa") }

NoData == Request(Null, Null, Null, Null, Null)

-----------------------------------------------------------------------------
(* The store *)

\* tasks.findIndex((t) => t.id === id), 1-based; 0 stands for -1
RECURSIVE FindIndexFrom(_, _, _)
FindIndexFrom(ts, id, i) ==
    IF i > Len(ts) THEN 0
    ELSE IF ts[i].id = id THEN i
    ELSE FindIndexFrom(ts, id, i + 1)

\* a lookup that lets -1 through as an index: it counts from the end
FindIndex_LastWhenMissing(ts, id) ==
    IF FindIndexFrom(ts, id, 1) = 0 THEN Len(ts) ELSE FindIndexFrom(ts, id, 1)

FindIndex(ts, id) == FindIndexFrom(ts, id, 1)

\* tasks.splice(index, 1): nothing is removed at an index past the end
Splice(ts, index) ==
    IF index > Len(ts) THEN ts
    ELSE SubSeq(ts, 1, index - 1) \o SubSeq(ts, index + 1, Len(ts))

\* recordHistory putting the new entry first (unshift instead of push)
recordHistory_Unshift(hist, uuid, t, idTarefa, tipo, campo, anterior, novo, origem) ==
    <<[id |-> uuid,
       idTarefa |-> idTarefa,
       dataAlteracao |-> t,
       tipoAlteracao |-> tipo,
       campoAlterado |-> campo,
       valorAnterior |-> anterior,
       valorNovo |-> novo,
       origemAlteracao |-> origem]>> \o hist

\* recordHistory: append one entry with a fresh identifier and the current time
recordHistory(hist, uuid, t, idTarefa, tipo, campo, anterior, novo, origem) ==
    Append(hist,
           [id |-> uuid,
            idTarefa |-> idTarefa,
            dataAlteracao |-> t,
            tipoAlteracao |-> tipo,
            campoAlterado |-> campo,
            valorAnterior |-> anterior,
            valorNovo |-> novo,
            origemAlteracao |-> origem])

\* number of tasks created so far
Created(hist) == Cardinality({i \in 1..Len(hist) : hist[i].tipoAlteracao = "Criacao"})

\* the record of a service call; id 0 is an identifier uuidv4() never returned
Call(op, id, data, status, outcome) ==
    [op |-> op, id |-> id, data |-> data, status |-> status, outcome |-> outcome,
     at |-> now, prevOp |-> last.op, prevAt |-> last.at]

\* no read of the store has been made since the last call
NoQuery == [op |-> "none"]

\* what every call that may write does besides its own work: it is counted, it
\* reads the clock without moving it, and the store it found is remembered
Counted ==
    /\ opCount < MaxOps
    /\ opCount' = opCount + 1
    /\ now' = now
    /\ preTasks' = tasks
    /\ preHistory' = history
    /\ UNCHANGED <<queue, started>>

\* a call of one of the writing operations of the service
Called ==
    /\ Counted
    /\ query' = NoQuery

\* the operations that only read the store
ReadOps == {"taskList", "taskGet", "taskGetHistory", "getHistoryHandler"}

\* what every call that only reads does besides its own work: it is counted,
\* and the record of the last writing call stays; a read is not followed by
\* another read of the same store
Read ==
    /\ opCount < MaxOps
    /\ query.op \notin ReadOps
    /\ opCount' = opCount + 1
    /\ UNCHANGED <<now, nextUuid, last, preTasks, preHistory, queue, started>>

-----------------------------------------------------------------------------
(* taskCreate *)

\* taskCreate refusing a title of exactly 100 characters
CreateValidation_LengthOffByOne(data) ==
    IF ~Truthy(data.titulo) \/ Len(Trim(data.titulo)) = 0 THEN "tituloObrigatorio"
    ELSE IF Len(data.titulo) >= 100 THEN "tituloMuitoLongo"
    ELSE IF Truthy(data.descricao) /\ Len(data.descricao) > 500 THEN "descricaoMuitoLonga"
    ELSE "ok"

\* the validation of taskCreate: "ok" or the message of the Error thrown
CreateValidation(data) ==
    IF ~Truthy(data.titulo) \/ Len(Trim(data.titulo)) = 0 THEN "tituloObrigatorio"
    ELSE IF Len(data.titulo) > 100 THEN "tituloMuitoLongo"
    ELSE IF Truthy(data.descricao) /\ Len(data.descricao) > 500 THEN "descricaoMuitoLonga"
    ELSE "ok"

NewTask(uuid, data, t) ==
    [id |-> uuid,
     titulo |-> data.titulo,
     descricao |-> data.descricao,
     dataVencimento |-> data.dataVencimento,
     horaVencimento |-> data.horaVencimento,
     importancia |-> data.importancia,
     status |-> Pendente,
     dataCriacao |-> t,
     dataAtualizacao |-> t]

taskCreate(data) ==
    /\ Called
    /\ IF CreateValidation(data) # "ok"
       THEN /\ last' = Call("taskCreate", 0, data, Null, CreateValidation(data))
            /\ UNCHANGED <<tasks, history, nextUuid>>
       ELSE /\ Created(history) < MaxTasks
            /\ tasks' = Append(tasks, NewTask(nextUuid, data, now))
            /\ history' = recordHistory(history, nextUuid + 1, now, nextUuid,
                                        "Criacao", Null, Null, Null, "Manual")
            /\ nextUuid' = nextUuid + 2
            /\ last' = Call("taskCreate", nextUuid, data, Null, "ok")

-----------------------------------------------------------------------------
(* taskUpdate *)

\* the validation of taskUpdate without the check of the description
UpdateValidation_DescriptionUnchecked(data) ==
    IF ~Truthy(data.titulo) \/ Len(Trim(data.titulo)) = 0 THEN "tituloObrigatorio"
    ELSE IF Len(data.titulo) > 100 THEN "tituloMuitoLongo"
    ELSE "ok"

\* the validation of taskUpdate testing the title without trimming it
UpdateValidation_BlankAccepted(data) ==
    IF ~Truthy(data.titulo) THEN "tituloObrigatorio"
    ELSE IF Len(data.titulo) > 100 THEN "tituloMuitoLongo"
    ELSE IF Truthy(data.descricao) /\ Len(data.descricao) > 500 THEN "descricaoMuitoLonga"
    ELSE "ok"

\* the validation of taskUpdate: "ok" or the message of the Error thrown
UpdateValidation(data) ==
    IF ~Truthy(data.titulo) \/ Len(Trim(data.titulo)) = 0 THEN "tituloObrigatorio"
    ELSE IF Len(data.titulo) > 100 THEN "tituloMuitoLongo"
    ELSE IF Truthy(data.descricao) /\ Len(data.descricao) > 500 THEN "descricaoMuitoLonga"
    ELSE "ok"

\* the update leaving the last-update timestamp as it was
UpdatedTask_TimestampKept(task, data, t) ==
    [task EXCEPT !.titulo = data.titulo,
                 !.descricao = data.descricao,
                 !.dataVencimento = data.dataVencimento,
                 !.horaVencimento = data.horaVencimento,
                 !.importancia = data.importancia]

\* the update storing the task with the status of a new task
UpdatedTask_StatusOfNewTask(task, data, t) ==
    [task EXCEPT !.titulo = data.titulo,
                 !.descricao = data.descricao,
                 !.dataVencimento = data.dataVencimento,
                 !.horaVencimento = data.horaVencimento,
                 !.importancia = data.importancia,
                 !.status = Pendente,
                 !.dataAtualizacao = t]

\* tasks[taskIndex] = { ...tasks[taskIndex], titulo: data.titulo, ... }
UpdatedTask(task, data, t) ==
    [task EXCEPT !.titulo = data.titulo,
                 !.descricao = data.descricao,
                 !.dataVencimento = data.dataVencimento,
                 !.horaVencimento = data.horaVencimento,
                 !.importancia = data.importancia,
                 !.dataAtualizacao = t]

\* the reset refusing a due-date of today
ResetsStatus_TodayExcluded(task, data, t) ==
    /\ task.status = Vencida
    /\ Truthy(data.dataVencimento)
    /\ ParseDueDate(data.dataVencimento) > StartOfDay(t)

\* the condition under which taskUpdate resets the status to Pendente
ResetsStatus(task, data, t) ==
    /\ task.status = Vencida
    /\ Truthy(data.dataVencimento)
    /\ ParseDueDate(data.dataVencimento) >= StartOfDay(t)

Change(field, oldValue, newValue) ==
    [field |-> field, oldValue |-> oldValue, newValue |-> newValue]

\* the change detection without the comparison of importancia
ChangedFields_ImportanceForgotten(oldTask, data) ==
    (IF oldTask.titulo # data.titulo
     THEN <<Change("titulo", oldTask.titulo, data.titulo)>> ELSE <<>>)
    \o (IF oldTask.descricao # data.descricao
        THEN <<Change("descricao", oldTask.descricao, data.descricao)>> ELSE <<>>)
    \o (IF oldTask.dataVencimento # data.dataVencimento
        THEN <<Change("dataVencimento", oldTask.dataVencimento, data.dataVencimento)>>
        ELSE <<>>)
    \o (IF oldTask.horaVencimento # data.horaVencimento
        THEN <<Change("horaVencimento", oldTask.horaVencimento, data.horaVencimento)>>
        ELSE <<>>)

\* the change detection comparing the stored title with the requested description
ChangedFields_TitleAgainstDescription(oldTask, data) ==
    (IF oldTask.titulo # data.descricao
     THEN <<Change("titulo", oldTask.titulo, data.titulo)>> ELSE <<>>)
    \o (IF oldTask.descricao # data.descricao
        THEN <<Change("descricao", oldTask.descricao, data.descricao)>> ELSE <<>>)
    \o (IF oldTask.dataVencimento # data.dataVencimento
        THEN <<Change("dataVencimento", oldTask.dataVencimento, data.dataVencimento)>>
        ELSE <<>>)
    \o (IF oldTask.horaVencimento # data.horaVencimento
        THEN <<Change("horaVencimento", oldTask.horaVencimento, data.horaVencimento)>>
        ELSE <<>>)
    \o (IF oldTask.importancia # data.importancia
        THEN <<Change("importancia", oldTask.importancia, data.importancia)>> ELSE <<>>)

\* changedFields: the tracked fields whose value differs, in the order pushed
ChangedFields(oldTask, data) ==
    (IF oldTask.titulo # data.titulo
     THEN <<Change("titulo", oldTask.titulo, data.titulo)>> ELSE <<>>)
    \o (IF oldTask.descricao # data.descricao
        THEN <<Change("descricao", oldTask.descricao, data.descricao)>> ELSE <<>>)
    \o (IF oldTask.dataVencimento # data.dataVencimento
        THEN <<Change("dataVencimento", oldTask.dataVencimento, data.dataVencimento)>>
        ELSE <<>>)
    \o (IF oldTask.horaVencimento # data.horaVencimento
        THEN <<Change("horaVencimento", oldTask.horaVencimento, data.horaVencimento)>>
        ELSE <<>>)
    \o (IF oldTask.importancia # data.importancia
        THEN <<Change("importancia", oldTask.importancia, data.importancia)>> ELSE <<>>)

\* for (const change of changedFields) await recordHistory({... 'Edição' ...})
RECURSIVE RecordChanges(_, _, _, _, _, _)
RecordChanges(hist, uuid, t, id, changes, i) ==
    IF i > Len(changes) THEN hist
    ELSE RecordChanges(
             recordHistory(hist, uuid, t, id, "Edicao", changes[i].field,
                           String(changes[i].oldValue), String(changes[i].newValue),
                           "Manual"),
             uuid + 1, t, id, changes, i + 1)

taskUpdate(id, data) ==
    LET taskIndex == FindIndex(tasks, id)
        oldTask == tasks[taskIndex]
        updated == UpdatedTask(oldTask, data, now)
        reset == ResetsStatus(updated, data, now)
        stored == IF reset THEN [updated EXCEPT !.status = Pendente] ELSE updated
        hist1 == IF reset
                 THEN recordHistory(history, nextUuid, now, id, "Alteracao de Status",
                                    "status", Vencida, Pendente, "Automatica")
                 ELSE history
        uuid1 == IF reset THEN nextUuid + 1 ELSE nextUuid
        changedFields == ChangedFields(oldTask, data)
    IN  /\ Called
        /\ IF taskIndex = 0
           THEN /\ last' = Call("taskUpdate", id, data, Null, "null")
                /\ UNCHANGED <<tasks, history, nextUuid>>
           ELSE IF UpdateValidation(data) # "ok"
           THEN /\ last' = Call("taskUpdate", id, data, Null, UpdateValidation(data))
                /\ UNCHANGED <<tasks, history, nextUuid>>
           ELSE /\ tasks' = [tasks EXCEPT ![taskIndex] = stored]
                /\ history' = RecordChanges(hist1, uuid1, now, id, changedFields, 1)
                /\ nextUuid' = uuid1 + Len(changedFields)
                /\ last' = Call("taskUpdate", id, data, Null, "ok")

-----------------------------------------------------------------------------
(* taskDelete *)

taskDelete(id) ==
    LET taskIndex == FindIndex(tasks, id)
    IN  /\ Called
        /\ IF taskIndex = 0
           THEN /\ last' = Call("taskDelete", id, NoData, Null, "false")
                /\ UNCHANGED <<tasks, history, nextUuid>>
           ELSE /\ history' = recordHistory(history, nextUuid, now, id,
                                            "Exclusao", Null, Null, Null, "Manual")
                /\ nextUuid' = nextUuid + 1
                /\ tasks' = Splice(tasks, taskIndex)
                /\ last' = Call("taskDelete", id, NoData, Null, "true")

-----------------------------------------------------------------------------
(* taskUpdateStatus *)

\* the refusal testing the wrong requested status
StatusChangeForbidden_WrongTarget(oldStatus, status) ==
    oldStatus = Vencida /\ status = Concluida

\* the refusal testing the wrong current status
StatusChangeForbidden_WrongSource(oldStatus, status) ==
    oldStatus = Concluida /\ status = Pendente

\* the transition taskUpdateStatus refuses
StatusChangeForbidden(oldStatus, status) ==
    oldStatus = Vencida /\ status = Pendente

taskUpdateStatus(id, status) ==
    LET taskIndex == FindIndex(tasks, id)
        oldStatus == tasks[taskIndex].status
    IN  /\ Called
        /\ IF taskIndex = 0
           THEN /\ last' = Call("taskUpdateStatus", id, NoData, status, "null")
                /\ UNCHANGED <<tasks, history, nextUuid>>
           ELSE IF StatusChangeForbidden(oldStatus, status)
           THEN /\ last' = Call("taskUpdateStatus", id, NoData, status,
                                "alteracaoNaoPermitida")
                /\ UNCHANGED <<tasks, history, nextUuid>>
           ELSE /\ tasks' = [tasks EXCEPT ![taskIndex].status = status,
                                          ![taskIndex].dataAtualizacao = now]
                /\ history' = recordHistory(history, nextUuid, now, id,
                                            "Alteracao de Status", "status",
                                            oldStatus, status, "Manual")
                /\ nextUuid' = nextUuid + 1
                /\ last' = Call("taskUpdateStatus", id, NoData, status, "ok")

-----------------------------------------------------------------------------
(* taskCheckOverdue *)

\* the effective due-moment of a task that has a due-date
DueMoment(task) ==
    IF Truthy(task.horaVencimento)
    THEN SetHoursFromText(ParseDueDate(task.dataVencimento), task.horaVencimento)
    ELSE SetHours(ParseDueDate(task.dataVencimento), 23, 59, 59)

\* the sweep flipping a task whose due-moment is the current moment
IsOverdue_NotStrict(task, t) ==
    /\ task.status = Pendente
    /\ Truthy(task.dataVencimento)
    /\ DueMoment(task) <= t

\* the sweep considering every task that is not yet Vencida
IsOverdue_CompletedIncluded(task, t) ==
    /\ task.status # Vencida
    /\ Truthy(task.dataVencimento)
    /\ DueMoment(task) < t

\* the sweep considering every task that is not Concluida
IsOverdue_OverdueIncluded(task, t) ==
    /\ task.status # Concluida
    /\ Truthy(task.dataVencimento)
    /\ DueMoment(task) < t

\* the test the sweep applies to one task at the moment t it read at its start
IsOverdue(task, t) ==
    /\ task.status = Pendente
    /\ Truthy(task.dataVencimento)
    /\ DueMoment(task) < t

\* the sweep recording its flips with origin Manual
RECURSIVE CheckOverdueFrom_ManualOrigin(_, _, _, _, _)
CheckOverdueFrom_ManualOrigin(ts, hist, uuid, t, i) ==
    IF i > Len(ts) THEN [tasks |-> ts, history |-> hist, nextUuid |-> uuid]
    ELSE IF IsOverdue(ts[i], t)
    THEN CheckOverdueFrom_ManualOrigin(
             [ts EXCEPT ![i].status = Vencida, ![i].dataAtualizacao = t],
             recordHistory(hist, uuid, t, ts[i].id, "Alteracao de Status", "status",
                           Pendente, Vencida, "Manual"),
             uuid + 1, t, i + 1)
    ELSE CheckOverdueFrom_ManualOrigin(ts, hist, uuid, t, i + 1)

\* the sweep flipping a task without recording the change
RECURSIVE CheckOverdueFrom_Unrecorded(_, _, _, _, _)
CheckOverdueFrom_Unrecorded(ts, hist, uuid, t, i) ==
    IF i > Len(ts) THEN [tasks |-> ts, history |-> hist, nextUuid |-> uuid]
    ELSE IF IsOverdue(ts[i], t)
    THEN CheckOverdueFrom_Unrecorded(
             [ts EXCEPT ![i].status = Vencida, ![i].dataAtualizacao = t],
             hist, uuid, t, i + 1)
    ELSE CheckOverdueFrom_Unrecorded(ts, hist, uuid, t, i + 1)

\* for (const task of tasks) { ... }: the store after the tasks from index i on
\* have been visited
RECURSIVE CheckOverdueFrom(_, _, _, _, _)
CheckOverdueFrom(ts, hist, uuid, t, i) ==
    IF i > Len(ts) THEN [tasks |-> ts, history |-> hist, nextUuid |-> uuid]
    ELSE IF IsOverdue(ts[i], t)
    THEN CheckOverdueFrom(
             [ts EXCEPT ![i].status = Vencida, ![i].dataAtualizacao = t],
             recordHistory(hist, uuid, t, ts[i].id, "Alteracao de Status", "status",
                           Pendente, Vencida, "Automatica"),
             uuid + 1, t, i + 1)
    ELSE CheckOverdueFrom(ts, hist, uuid, t, i + 1)

taskCheckOverdue ==
    LET r == CheckOverdueFrom(tasks, history, nextUuid, now, 1)
    IN  /\ Called
        /\ tasks' = r.tasks
        /\ history' = r.history
        /\ nextUuid' = r.nextUuid
        /\ last' = Call("taskCheckOverdue", 0, NoData, Null, "ok")

-----------------------------------------------------------------------------
(* JavaScript Date getters and text search *)

\* the civil date of the day number z (days since 01/01/1970)
CivilFromDays(z) ==
    LET zz  == z + 719468
        era == zz \div 146097
        doe == zz - era * 146097
        yoe == (doe - (doe \div 1460) + (doe \div 36524) - (doe \div 146096)) \div 365
        doy == doe - (365 * yoe + (yoe \div 4) - (yoe \div 100))
        mp  == (5 * doy + 2) \div 153
        d   == doy - ((153 * mp + 2) \div 5) + 1
        m   == IF mp < 10 THEN mp + 3 ELSE mp - 9
    IN  [year |-> yoe + era * 400 + (IF m <= 2 THEN 1 ELSE 0), month |-> m, day |-> d]

\* now.getFullYear(), now.getMonth() (0 = January), now.getDate()
GetFullYear(t) == CivilFromDays(t \div 86400).year
GetMonth(t) == CivilFromDays(t \div 86400).month - 1
GetDate(t) == CivilFromDays(t \div 86400).day

LowerChar(c) ==
    CASE c = "A" -> "a" [] c = "B" -> "b" [] c = "C" -> "c" [] c = "D" -> "d"
      [] c = "E" -> "e" [] c = "F" -> "f" [] c = "G" -> "g" [] c = "H" -> "h"
      [] c = "I" -> "i" [] c = "J" -> "j" [] c = "K" -> "k" [] c = "L" -> "l"
      [] c = "M" -> "m" [] c = "N" -> "n" [] c = "O" -> "o" [] c = "P" -> "p"
      [] c = "Q" -> "q" [] c = "R" -> "r" [] c = "S" -> "s" [] c = "T" -> "t"
      [] c = "U" -> "u" [] c = "V" -> "v" [] c = "W" -> "w" [] c = "X" -> "x"
      [] c = "Y" -> "y" [] c = "Z" -> "z" [] OTHER -> c

\* String.prototype.toLowerCase, for unaccented text
RECURSIVE ToLowerCase(_)
ToLowerCase(s) ==
    IF Len(s) = 0 THEN ""
    ELSE IF Len(s) = 1 THEN LowerChar(s)
    ELSE LET h == Len(s) \div 2
         IN  ToLowerCase(SubSeq(s, 1, h)) \o ToLowerCase(SubSeq(s, h + 1, Len(s)))

\* s.includes(sub)
Includes(s, sub) ==
    \E i \in 1..(Len(s) - Len(sub) + 1) : SubSeq(s, i, i + Len(sub) - 1) = sub

-----------------------------------------------------------------------------
(* taskList *)

Filters(st, im, pe, ob, od, se) ==
    [filterStatus |-> st, filterImportance |-> im, filterPeriod |-> pe,
     orderBy |-> ob, orderDirection |-> od, searchTerm |-> se]

StatusFilter(ts, f) ==
    IF f.filterStatus # "Todas"
    THEN SelectSeq(ts, LAMBDA task : task.status = f.filterStatus)
    ELSE ts

ImportanceFilter(ts, f) ==
    IF f.filterImportance # "Todas"
    THEN SelectSeq(ts, LAMBDA task : task.importancia = f.filterImportance)
    ELSE ts

\* const today = new Date(now.getFullYear(), now.getMonth(), now.getDate())
Today(t) == NewDate(GetFullYear(t), GetMonth(t), GetDate(t))

\* the due-date of 'Próximas ao vencimento': at the due-time, or at midnight
SoonMoment(task) ==
    IF Truthy(task.horaVencimento)
    THEN SetHoursFromText(ParseDueDate(task.dataVencimento), task.horaVencimento)
    ELSE ParseDueDate(task.dataVencimento)

\* the callback of the filter of one period, at the moment t
InPeriod(task, period, t) ==
    CASE period = "Hoje" ->
            /\ Truthy(task.dataVencimento)
            /\ ParseDueDate(task.dataVencimento) = Today(t)
      [] period = "Esta semana" ->
            /\ Truthy(task.dataVencimento)
            /\ ParseDueDate(task.dataVencimento) >= Today(t)
            /\ ParseDueDate(task.dataVencimento) <= Today(t) + 7 * 86400
      [] period = "Este mes" ->
            /\ Truthy(task.dataVencimento)
            /\ Number(Split(task.dataVencimento, "/")[2]) = GetMonth(t) + 1
            /\ Number(Split(task.dataVencimento, "/")[3]) = GetFullYear(t)
      [] period = "Proximas ao vencimento" ->
            /\ Truthy(task.dataVencimento)
            /\ SoonMoment(task) >= t
            /\ SoonMoment(task) <= t + 48 * 60 * 60
            /\ task.status = Pendente
      [] period = "Vencidas" -> task.status = Vencida
      [] period = "Sem data" -> ~Truthy(task.dataVencimento)
      [] OTHER -> TRUE

PeriodFilter(ts, f, t) ==
    IF f.filterPeriod # "Todas"
    THEN SelectSeq(ts, LAMBDA task : InPeriod(task, f.filterPeriod, t))
    ELSE ts

SearchFilter(ts, f) ==
    IF Truthy(f.searchTerm)
    THEN LET searchLower == ToLowerCase(f.searchTerm)
         IN  SelectSeq(ts, LAMBDA task :
                 \/ Includes(ToLowerCase(task.titulo), searchLower)
                 \/ /\ Truthy(task.descricao)
                    /\ Includes(ToLowerCase(task.descricao), searchLower))
    ELSE ts


\* const importanceOrder = { Alta: 1, Média: 2, Baixa: 3 }
ImportanceOrder(importancia) ==
    CASE importancia = "Alta" -> 1
      [] importancia = "Media" -> 2
      [] importancia = "Baixa" -> 3

\* the value of comparison at the end of the switch on orderBy
Comparison(a, b, f) ==
    CASE f.orderBy = "Data de vencimento" ->
            IF ~Truthy(a.dataVencimento) /\ ~Truthy(b.dataVencimento) THEN 0
            ELSE IF ~Truthy(a.dataVencimento) THEN 1
            ELSE IF ~Truthy(b.dataVencimento) THEN 0 - 1
            ELSE ParseDueDate(a.dataVencimento) - ParseDueDate(b.dataVencimento)
      [] f.orderBy = "Importancia" ->
            ImportanceOrder(a.importancia) - ImportanceOrder(b.importancia)
      [] f.orderBy = "Data de criacao" -> a.dataCriacao - b.dataCriacao
      [] OTHER -> 0

\* the callback of filteredTasks.sort
Compare(a, b, f) ==
    IF f.orderDirection = "Crescente" THEN Comparison(a, b, f) ELSE 0 - Comparison(a, b, f)

\* a sort that puts a task before the tasks it compares equal to
RECURSIVE InsertTask_Unstable(_, _, _)
InsertTask_Unstable(sorted, task, f) ==
    IF Len(sorted) = 0 THEN <<task>>
    ELSE IF Compare(sorted[Len(sorted)], task, f) < 0 THEN Append(sorted, task)
    ELSE Append(InsertTask_Unstable(SubSeq(sorted, 1, Len(sorted) - 1), task, f),
                sorted[Len(sorted)])

\* Array.prototype.sort is stable: a task goes after every task of the sorted
\* part that does not compare greater than it
RECURSIVE InsertTask(_, _, _)
InsertTask(sorted, task, f) ==
    IF Len(sorted) = 0 THEN <<task>>
    ELSE IF Compare(sorted[Len(sorted)], task, f) <= 0 THEN Append(sorted, task)
    ELSE Append(InsertTask(SubSeq(sorted, 1, Len(sorted) - 1), task, f),
                sorted[Len(sorted)])

RECURSIVE SortTasksFrom(_, _, _, _)
SortTasksFrom(ts, f, sorted, i) ==
    IF i > Len(ts) THEN sorted
    ELSE SortTasksFrom(ts, f, InsertTask(sorted, ts[i], f), i + 1)

SortTasks(ts, f) == SortTasksFrom(ts, f, <<>>, 1)

\* what taskList returns for the store ts at the moment t
TaskListResult(ts, f, t) ==
    SortTasks(SearchFilter(PeriodFilter(ImportanceFilter(StatusFilter(ts, f), f), f, t), f), f)

\* the record of a read of the store
Asked(op, id, filters, outcome, result, found) ==
    [op |-> op, id |-> id, filters |-> filters, outcome |-> outcome,
     result |-> result, tasksFound |-> found, historyFound |-> history, at |-> now]

\* taskList sorting the store itself instead of a copy of it
taskList_SortsInPlace(filters) ==
    /\ Read
    /\ tasks' = SortTasks(tasks, filters)
    /\ history' = history
    /\ query' = Asked("taskList", 0, filters, "ok",
                      TaskListResult(tasks, filters, now), tasks)

taskList(filters) ==
    /\ Read
    /\ tasks' = tasks
    /\ history' = history
    /\ query' = Asked("taskList", 0, filters, "ok",
                      TaskListResult(tasks, filters, now), tasks)

-----------------------------------------------------------------------------
(* taskGet *)

\* tasks.find((t) => t.id === id) || null
Find(ts, id) == IF FindIndex(ts, id) = 0 THEN Null ELSE ts[FindIndex(ts, id)]

taskGet(id) ==
    /\ Read
    /\ query' = Asked("taskGet", id, Null,
                      IF FindIndex(tasks, id) = 0 THEN "null" ELSE "ok",
                      Find(tasks, id), tasks)
    /\ UNCHANGED <<tasks, history>>

-----------------------------------------------------------------------------
(* taskGetHistory *)

HistoryFilters(filterTipo, filterOrigem) ==
    [filterTipo |-> filterTipo, filterOrigem |-> filterOrigem]

\* entries.sort((a, b) => b.dataAlteracao.getTime() - a.dataAlteracao.getTime())
RECURSIVE InsertEntry(_, _)
InsertEntry(sorted, entry) ==
    IF Len(sorted) = 0 THEN <<entry>>
    ELSE IF entry.dataAlteracao - sorted[Len(sorted)].dataAlteracao <= 0
    THEN Append(sorted, entry)
    ELSE Append(InsertEntry(SubSeq(sorted, 1, Len(sorted) - 1), entry),
                sorted[Len(sorted)])

RECURSIVE SortEntriesFrom(_, _, _)
SortEntriesFrom(es, sorted, i) ==
    IF i > Len(es) THEN sorted
    ELSE SortEntriesFrom(es, InsertEntry(sorted, es[i]), i + 1)

SortEntries(es) == SortEntriesFrom(es, <<>>, 1)

\* taskGetHistory without the filter on the origin
HistoryResult_OriginIgnored(hist, idTarefa, f) ==
    LET ofTask == SelectSeq(hist, LAMBDA h : h.idTarefa = idTarefa)
        ofKind == IF Truthy(f.filterTipo) /\ f.filterTipo # "Todas"
                  THEN SelectSeq(ofTask, LAMBDA h : h.tipoAlteracao = f.filterTipo)
                  ELSE ofTask
    IN  SortEntries(ofKind)

\* what taskGetHistory returns for the log hist
HistoryResult(hist, idTarefa, f) ==
    LET ofTask == SelectSeq(hist, LAMBDA h : h.idTarefa = idTarefa)
        ofKind == IF Truthy(f.filterTipo) /\ f.filterTipo # "Todas"
                  THEN SelectSeq(ofTask, LAMBDA h : h.tipoAlteracao = f.filterTipo)
                  ELSE ofTask
        ofOrigin == IF Truthy(f.filterOrigem) /\ f.filterOrigem # "Todas"
                    THEN SelectSeq(ofKind, LAMBDA h : h.origemAlteracao = f.filterOrigem)
                    ELSE ofKind
    IN  SortEntries(ofOrigin)

taskGetHistory(idTarefa, f) ==
    /\ Read
    /\ query' = Asked("taskGetHistory", idTarefa, f, "ok",
                      HistoryResult(history, idTarefa, f), tasks)
    /\ UNCHANGED <<tasks, history>>

-----------------------------------------------------------------------------
(* getHistoryHandler and listHandler *)

\* GET /task/:id/history: the task is looked up before its history is read
getHistoryHandler(id, f) ==
    /\ Read
    /\ IF FindIndex(tasks, id) = 0
       THEN query' = Asked("getHistoryHandler", id, f, "tarefaNaoEncontrada", <<>>, tasks)
       ELSE query' = Asked("getHistoryHandler", id, f, "ok",
                           HistoryResult(history, id, f), tasks)
    /\ UNCHANGED <<tasks, history>>

\* listHandler answering from the store as it is, with no sweep
listHandler_NoSweep(filters) ==
    /\ Counted
    /\ UNCHANGED <<tasks, history, nextUuid>>
    /\ last' = Call("listHandler", 0, NoData, Null, "ok")
    /\ query' = Asked("listHandler", 0, filters, "ok",
                      TaskListResult(tasks, filters, now), tasks)

\* GET /task: await taskCheckOverdue(); then taskList(filters)
listHandler(filters) ==
    LET r == CheckOverdueFrom(tasks, history, nextUuid, now, 1)
    IN  /\ Counted
        /\ tasks' = r.tasks
        /\ history' = r.history
        /\ nextUuid' = r.nextUuid
        /\ last' = Call("listHandler", 0, NoData, Null, "ok")
        /\ query' = [Asked("listHandler", 0, filters, "ok",
                           TaskListResult(r.tasks, filters, now), r.tasks)
                     EXCEPT !.historyFound = r.history]

-----------------------------------------------------------------------------
(* The clock *)

\* time passes between two service calls
Tick ==
    /\ opCount < MaxOps
    /\ \E m \in Moments : m > now /\ now' = m
    /\ query' = NoQuery
    /\ UNCHANGED <<tasks, history, nextUuid, opCount, last, preTasks, preHistory,
                   queue, started>>

-----------------------------------------------------------------------------
(* Specification *)

TaskIds == {tasks[i].id : i \in 1..Len(tasks)}

Init ==
    /\ tasks = <<>>
    /\ history = <<>>
    /\ now = FirstMoment
    /\ nextUuid = 1
    /\ opCount = 0
    /\ last = [op |-> "none", id |-> 0, data |-> NoData, status |-> Null,
               outcome |-> "ok", at |-> FirstMoment, prevOp |-> "none",
               prevAt |-> FirstMoment]
    /\ preTasks = <<>>
    /\ preHistory = <<>>
    /\ query = NoQuery
    /\ queue = <<>>
    /\ started = <<>>

Next ==
    \/ \E data \in CreateRequests : taskCreate(data)
    \/ \E id \in TaskIds, data \in UpdateRequests : taskUpdate(id, data)
    \/ \E data \in UnknownIdRequests : taskUpdate(0, data)
    \/ \E id \in TaskIds \cup {0} : taskDelete(id)
    \/ \E id \in TaskIds \cup {0}, status \in StatusRequests : taskUpdateStatus(id, status)
    \/ taskCheckOverdue
    \/ Tick

Spec == Init /\ [][Next]_vars

-----------------------------------------------------------------------------
(* Specification of the reads: every operation, on tasks that differ in    *)
(* importance, due-date and text                                           *)

\* a task due on the first day at 10:00, a task with no due-date and a
\* description, a task due on the second day, a task of low importance due on
\* the first day with no due-time
QueryCreateRequests ==
    { Request("Ab", Null, Day1, "10:00", "Alta"),
      Request("c", "aB", Null, Null, "Alta"),
      Request("c", Null, Day2, Null, "Media"),
      Request("c", Null, Day1, Null, "Baixa") }

\* an update that removes the due-date, and one that fails validation
QueryUpdateRequests ==
    { Request("c", Null, Null, Null, "Media"),
      Request("", Null, Null, Null, "Alta") }

\* the default query of listHandler
AllTasks == Filters("Todas", "Todas", "Todas", "Data de vencimento", "Crescente", Null)

\* the default query with one criterion changed at a time, and two with several
ListFilters ==
    { AllTasks }
    \cup { [AllTasks EXCEPT !.filterStatus = st] : st \in TaskStatus }
    \cup { [AllTasks EXCEPT !.filterImportance = "Alta"] }
    \cup { [AllTasks EXCEPT !.filterPeriod = pe] :
               pe \in {"Hoje", "Esta semana", "Este mes", "Proximas ao vencimento",
                       "Vencidas", "Sem data"} }
    \cup { [AllTasks EXCEPT !.searchTerm = "AB"] }
    \cup { [AllTasks EXCEPT !.orderBy = ob, !.orderDirection = od] :
               ob \in {"Data de vencimento", "Importancia", "Data de criacao"},
               od \in {"Crescente", "Decrescente"} }
    \cup { Filters("Pendente", "Alta", "Esta semana", "Importancia", "Decrescente", "a"),
           Filters("Todas", "Todas", "Sem data", "Data de criacao", "Decrescente", "C") }

\* queries listHandler accepts: its status filter is one of 'Todas',
\* 'Pendentes', 'Concluídas', 'Vencidas'
HandlerListFilters ==
    { AllTasks }
    \cup { [AllTasks EXCEPT !.filterStatus = st] :
               st \in {"Pendentes", "Concluidas", "Vencidas"} }
    \cup { [AllTasks EXCEPT !.orderDirection = "Decrescente"] }

\* taskGetHistory with no filter given, with one set, with the other set
HistoryFilterSets ==
    { HistoryFilters(Null, Null),
      HistoryFilters("Alteracao de Status", "Todas"),
      HistoryFilters("Todas", "Manual") }

\* getHistoryHandler gives both filters the default 'Todas'
HandlerHistoryFilters ==
    { HistoryFilters("Todas", "Todas") }

\* the identifiers the log knows, those of deleted tasks included
LoggedIds == {history[i].idTarefa : i \in 1..Len(history)}

\* the identifiers a caller may send: of a stored task, of a deleted task, of
\* no task at all
SentIds == TaskIds \cup LoggedIds \cup {0}

NextQuery ==
    \/ \E data \in QueryCreateRequests : taskCreate(data)
    \/ \E id \in SentIds, data \in QueryUpdateRequests : taskUpdate(id, data)
    \/ \E id \in SentIds : taskDelete(id)
    \/ \E id \in SentIds, status \in StatusRequests : taskUpdateStatus(id, status)
    \/ taskCheckOverdue
    \/ Tick
    \/ \E f \in ListFilters : taskList(f)
    \/ \E id \in SentIds : taskGet(id)
    \/ \E id \in SentIds, f \in HistoryFilterSets : taskGetHistory(id, f)
    \/ \E id \in SentIds, f \in HandlerHistoryFilters : getHistoryHandler(id, f)
    \/ \E f \in HandlerListFilters : listHandler(f)

SpecQuery == Init /\ [][NextQuery]_vars

-----------------------------------------------------------------------------
(* The request handlers that write (controller): the schema of the body,   *)
(* the check of the due-date, then the call of the service.  A field that  *)
(* the body leaves out is Null.  A request the handler answers itself is   *)
(* recorded under the name of the handler, a request passed on under the   *)
(* name of the service operation.                                          *)

IsDigit(c) == c \in {"0", "1", "2", "3", "4", "5", "6", "7", "8", "9"}

\* /^\d{2}\/\d{2}\/\d{4}$/
IsDateText(s) ==
    /\ Len(s) = 10
    /\ \A i \in {1, 2, 4, 5, 7, 8, 9, 10} : IsDigit(SubSeq(s, i, i))
    /\ \A i \in {3, 6} : SubSeq(s, i, i) = "/"

\* /^\d{2}:\d{2}$/
IsTimeText(s) ==
    /\ Len(s) = 5
    /\ \A i \in {1, 2, 4, 5} : IsDigit(SubSeq(s, i, i))
    /\ SubSeq(s, 3, 3) = ":"

\* bodySchema.parse(req.body) of createHandler and updateHandler succeeds
BodyAccepted(body) ==
    /\ body.titulo # Null
    /\ Len(body.titulo) >= 1
    /\ Len(body.titulo) <= 100
    /\ body.descricao # Null => Len(body.descricao) <= 500
    /\ body.dataVencimento # Null => IsDateText(body.dataVencimento)
    /\ body.horaVencimento # Null => IsTimeText(body.horaVencimento)
    /\ body.importancia \in TaskImportance

\* the check of the due-date counting the due-time: a due-moment before now
PastDueDate_TimeCounted(data, t) ==
    /\ Truthy(data.dataVencimento)
    /\ (IF Truthy(data.horaVencimento)
        THEN SetHoursFromText(ParseDueDate(data.dataVencimento), data.horaVencimento)
        ELSE ParseDueDate(data.dataVencimento)) < t

\* if (data.dataVencimento) { ... if (dueDate < today) ... }
PastDueDate(data, t) ==
    /\ Truthy(data.dataVencimento)
    /\ ParseDueDate(data.dataVencimento) < StartOfDay(t)

\* v || null
OrNull(v) == IF Truthy(v) THEN v ELSE Null

\* the argument the handler gives the service
ServiceData(body) ==
    Request(body.titulo, OrNull(body.descricao), OrNull(body.dataVencimento),
            OrNull(body.horaVencimento), body.importancia)

\* the handler answers the request itself: next({ code: ... })
Refused(op, id, data, status, code) ==
    /\ Called
    /\ last' = Call(op, id, data, status, code)
    /\ UNCHANGED <<tasks, history, nextUuid>>

\* POST /task
createHandler(body) ==
    IF ~BodyAccepted(body)
    THEN Refused("createHandler", 0, body, Null, "VALIDATION_ERROR")
    ELSE IF PastDueDate(body, now)
    THEN Refused("createHandler", 0, body, Null, "dataVencimentoPassado")
    ELSE taskCreate(ServiceData(body))

\* PUT /task/:id
updateHandler(id, body) ==
    IF ~BodyAccepted(body)
    THEN Refused("updateHandler", id, body, Null, "VALIDATION_ERROR")
    ELSE IF PastDueDate(body, now)
    THEN Refused("updateHandler", id, body, Null, "dataVencimentoPassado")
    ELSE taskUpdate(id, ServiceData(body))

\* DELETE /task/:id
deleteHandler(id) == taskDelete(id)

\* a schema that lets every status through
StatusAccepted_AnyStatus(status) == status \in TaskStatus

\* z.enum(['Pendente', 'Concluída'])
StatusAccepted(status) == status \in StatusRequests

\* PATCH /task/:id/status
updateStatusHandler(id, status) ==
    IF ~StatusAccepted(status)
    THEN Refused("updateStatusHandler", id, NoData, status, "VALIDATION_ERROR")
    ELSE taskUpdateStatus(id, status)

\* bodies: a task due on the first day at 10:00, one due on the second day,
\* one with no due-date and an empty description, one with an empty title, one
\* with a blank title, one with a due-date and one with a due-time that the
\* patterns refuse
ApiBodies ==
    { BaseRequest,
      Request("a", Null, Day2, Null, "Alta"),
      Request("a", "", Null, Null, "Media"),
      Request("", Null, Day1, Null, "Alta"),
      Request("  ", Null, Day2, Null, "Alta"),
      Request("a", Null, "1/3/2025", Null, "Alta"),
      Request("a", Null, Day2, "9:00", "Alta") }

\* the statuses a request may name
SentStatuses == TaskStatus \cup {"Todas"}

NextApi ==
    \/ \E body \in ApiBodies : createHandler(body)
    \/ \E id \in SentIds, body \in ApiBodies : updateHandler(id, body)
    \/ \E id \in SentIds : deleteHandler(id)
    \/ \E id \in SentIds, status \in SentStatuses : updateStatusHandler(id, status)
    \/ \E f \in {AllTasks} : listHandler(f)
    \/ Tick

SpecApi == Init /\ [][NextApi]_vars

-----------------------------------------------------------------------------
(* The operations as the event loop runs them: a call runs until its first  *)
(* await, which suspends it behind the calls already suspended; recordHistory *)
(* has pushed its entry when the await that waits for it suspends the call.  *)
(* The clock does not move while a call is suspended.                        *)

\* the record of a call made: its arguments, the clock it read and, for
\* taskCreate, the identifier it drew for the task
Started(op, id, data, status, uuid) ==
    [op |-> op, id |-> id, data |-> data, status |-> status, at |-> now, uuid |-> uuid]

\* a call suspended at an await, with the local variables it resumes with
Suspended(op, id, taskIndex, changes, t) ==
    [op |-> op, id |-> id, taskIndex |-> taskIndex, changes |-> changes, t |-> t]

\* what a call does besides its own work when calls may be suspended
Begun(call) ==
    /\ opCount < MaxAsyncOps
    /\ opCount' = opCount + 1
    /\ started' = Append(started, call)
    /\ UNCHANGED <<now, last, preTasks, preHistory, query>>

\* what the resumption of a suspended call does besides its own work
Resumed(op) ==
    /\ Len(queue) > 0
    /\ Head(queue).op = op
    /\ UNCHANGED <<now, opCount, started, last, preTasks, preHistory, query>>

\* taskCreate up to its await
taskCreate_Call(data) ==
    /\ Begun(Started("taskCreate", nextUuid, data, Null, nextUuid))
    /\ IF CreateValidation(data) # "ok"
       THEN UNCHANGED <<tasks, history, nextUuid, queue>>
       ELSE /\ Created(history) < MaxTasks
            /\ tasks' = Append(tasks, NewTask(nextUuid, data, now))
            /\ history' = recordHistory(history, nextUuid + 1, now, nextUuid,
                                        "Criacao", Null, Null, Null, "Manual")
            /\ nextUuid' = nextUuid + 2
            /\ queue' = Append(queue, Suspended("taskCreate", nextUuid, 0, <<>>, now))

\* taskUpdate up to its first await: the await of the status entry if the
\* status is reset, else the await of the first Edicao entry, if any
taskUpdate_Call(id, data) ==
    LET taskIndex == FindIndex(tasks, id)
        oldTask == tasks[taskIndex]
        updated == UpdatedTask(oldTask, data, now)
        reset == ResetsStatus(updated, data, now)
        stored == IF reset THEN [updated EXCEPT !.status = Pendente] ELSE updated
        changedFields == ChangedFields(oldTask, data)
    IN  /\ Begun(Started("taskUpdate", id, data, Null, 0))
        /\ IF taskIndex = 0 \/ UpdateValidation(data) # "ok"
           THEN UNCHANGED <<tasks, history, nextUuid, queue>>
           ELSE /\ tasks' = [tasks EXCEPT ![taskIndex] = stored]
                /\ IF reset
                   THEN /\ history' = recordHistory(history, nextUuid, now, id,
                                                    "Alteracao de Status", "status",
                                                    Vencida, Pendente, "Automatica")
                        /\ nextUuid' = nextUuid + 1
                        /\ queue' = Append(queue, Suspended("taskUpdate", id, taskIndex,
                                                            changedFields, now))
                   ELSE IF Len(changedFields) = 0
                   THEN UNCHANGED <<history, nextUuid, queue>>
                   ELSE /\ history' = RecordChanges(history, nextUuid, now, id,
                                                    <<changedFields[1]>>, 1)
                        /\ nextUuid' = nextUuid + 1
                        /\ queue' = Append(queue, Suspended("taskUpdate", id, taskIndex,
                                                            Tail(changedFields), now))

\* taskUpdate from one await to the next: the next Edicao entry, or the return
taskUpdate_Resume ==
    LET c == Head(queue)
    IN  /\ Resumed("taskUpdate")
        /\ tasks' = tasks
        /\ IF Len(c.changes) = 0
           THEN /\ queue' = Tail(queue)
                /\ UNCHANGED <<history, nextUuid>>
           ELSE /\ history' = RecordChanges(history, nextUuid, now, c.id,
                                            <<c.changes[1]>>, 1)
                /\ nextUuid' = nextUuid + 1
                /\ queue' = Append(Tail(queue),
                                   [c EXCEPT !.changes = Tail(c.changes)])

\* taskDelete up to its await
taskDelete_Call(id) ==
    LET taskIndex == FindIndex(tasks, id)
    IN  /\ Begun(Started("taskDelete", id, NoData, Null, 0))
        /\ tasks' = tasks
        /\ IF taskIndex = 0
           THEN UNCHANGED <<history, nextUuid, queue>>
           ELSE /\ history' = recordHistory(history, nextUuid, now, id,
                                            "Exclusao", Null, Null, Null, "Manual")
                /\ nextUuid' = nextUuid + 1
                /\ queue' = Append(queue, Suspended("taskDelete", id, taskIndex, <<>>, now))

\* taskDelete after its await: tasks.splice(taskIndex, 1) with the index found
\* before the await
taskDelete_Resume ==
    /\ Resumed("taskDelete")
    /\ tasks' = Splice(tasks, Head(queue).taskIndex)
    /\ queue' = Tail(queue)
    /\ UNCHANGED <<history, nextUuid>>

\* taskUpdateStatus up to its await
taskUpdateStatus_Call(id, status) ==
    LET taskIndex == FindIndex(tasks, id)
        oldStatus == tasks[taskIndex].status
    IN  /\ Begun(Started("taskUpdateStatus", id, NoData, status, 0))
        /\ IF taskIndex = 0 \/ StatusChangeForbidden(oldStatus, status)
           THEN UNCHANGED <<tasks, history, nextUuid, queue>>
           ELSE /\ tasks' = [tasks EXCEPT ![taskIndex].status = status,
                                          ![taskIndex].dataAtualizacao = now]
                /\ history' = recordHistory(history, nextUuid, now, id,
                                            "Alteracao de Status", "status",
                                            oldStatus, status, "Manual")
                /\ nextUuid' = nextUuid + 1
                /\ queue' = Append(queue, Suspended("taskUpdateStatus", id, taskIndex,
                                                    <<>>, now))

\* taskCreate and taskUpdateStatus after their await: they return
Return_Resume ==
    /\ Len(queue) > 0
    /\ Resumed(Head(queue).op)
    /\ Head(queue).op \in {"taskCreate", "taskUpdateStatus"}
    /\ queue' = Tail(queue)
    /\ UNCHANGED <<tasks, history, nextUuid>>

\* the index, from i on, of the first task the sweep flips; 0 if there is none
RECURSIVE FirstOverdueFrom(_, _, _)
FirstOverdueFrom(ts, t, i) ==
    IF i > Len(ts) THEN 0
    ELSE IF IsOverdue(ts[i], t) THEN i
    ELSE FirstOverdueFrom(ts, t, i + 1)

\* the loop of taskCheckOverdue from index i up to its next await, with the
\* other calls suspended: the array iterator reads the store as it is when the
\* loop goes on
SweepUntilAwait(i, t, others) ==
    LET k == FirstOverdueFrom(tasks, t, i)
    IN  IF k = 0
        THEN /\ UNCHANGED <<tasks, history, nextUuid>>
             /\ queue' = others
        ELSE /\ tasks' = [tasks EXCEPT ![k].status = Vencida, ![k].dataAtualizacao = now]
             /\ history' = recordHistory(history, nextUuid, now, tasks[k].id,
                                         "Alteracao de Status", "status",
                                         Pendente, Vencida, "Automatica")
             /\ nextUuid' = nextUuid + 1
             /\ queue' = Append(others, Suspended("taskCheckOverdue", 0, k + 1, <<>>, t))

\* taskCheckOverdue up to its first await
taskCheckOverdue_Call ==
    /\ Begun(Started("taskCheckOverdue", 0, NoData, Null, 0))
    /\ SweepUntilAwait(1, now, queue)

\* taskCheckOverdue from one await to the next, or to its end
taskCheckOverdue_Resume ==
    /\ Resumed("taskCheckOverdue")
    /\ SweepUntilAwait(Head(queue).taskIndex, Head(queue).t, Tail(queue))

\* time passes while no call is suspended
TickIdle ==
    /\ Len(queue) = 0
    /\ Tick

\* the requests made while calls may be suspended
AsyncCreateRequests == { BaseRequest, Request("", Null, Null, Null, "Alta") }

AsyncUpdateRequests == { Request("b", "d", Day1, "10:00", "Alta") }

NextAsync ==
    \/ \E data \in AsyncCreateRequests : taskCreate_Call(data)
    \/ \E id \in TaskIds \cup {0}, data \in AsyncUpdateRequests : taskUpdate_Call(id, data)
    \/ taskUpdate_Resume
    \/ \E id \in TaskIds \cup {0} : taskDelete_Call(id)
    \/ taskDelete_Resume
    \/ \E id \in TaskIds \cup {0}, status \in StatusRequests : taskUpdateStatus_Call(id, status)
    \/ Return_Resume
    \/ taskCheckOverdue_Call
    \/ taskCheckOverdue_Resume
    \/ TickIdle

SpecAsync == Init /\ [][NextAsync]_vars

-----------------------------------------------------------------------------
(* Observations used by the properties *)

InStore(ts, id) == \E i \in 1..Len(ts) : ts[i].id = id

TaskById(ts, id) == ts[CHOOSE i \in 1..Len(ts) : ts[i].id = id]

\* the entries of a log that refer to one task
EntriesOf(hist, id) == SelectSeq(hist, LAMBDA e : e.idTarefa = id)

\* the entries of a log of one kind
OfKind(hist, tipo) == SelectSeq(hist, LAMBDA e : e.tipoAlteracao = tipo)

\* the log kept what it held when the last call began
LogExtended ==
    /\ Len(preHistory) <= Len(history)
    /\ SubSeq(history, 1, Len(preHistory)) = preHistory

\* the entries the last call appended
NewEntries == SubSeq(history, Len(preHistory) + 1, Len(history))

\* the last n entries of the log
LastEntries(n) == SubSeq(history, Len(history) - n + 1, Len(history))

TrackedFields == {"titulo", "descricao", "dataVencimento", "horaVencimento", "importancia"}

\* the tracked fields on which a stored task and a request differ
Differing(task, data) == {f \in TrackedFields : task[f] # data[f]}

\* the last call was a taskUpdate that returned the updated task
UpdateSucceeded == last.op = "taskUpdate" /\ last.outcome = "ok"

-----------------------------------------------------------------------------
(* Properties *)

\* C1: a create whose title is non-blank and at most 100 characters and whose
\* description is absent or at most 500 characters returns a task with status
\* Pendente, and right after it the log holds exactly one entry for the new
\* task: kind Criacao, field null, previous value null, new value null, origin
\* Manual.
C1_ValidCreate ==
    (/\ last.op = "taskCreate"
     /\ Len(Trim(last.data.titulo)) > 0
     /\ Len(last.data.titulo) <= 100
     /\ (last.data.descricao = Null \/ Len(last.data.descricao) <= 500))
    => /\ last.outcome = "ok"
       /\ InStore(tasks, last.id)
       /\ TaskById(tasks, last.id).status = Pendente
       /\ LET es == EntriesOf(history, last.id)
          IN  /\ Len(es) = 1
              /\ es[1].tipoAlteracao = "Criacao"
              /\ es[1].campoAlterado = Null
              /\ es[1].valorAnterior = Null
              /\ es[1].valorNovo = Null
              /\ es[1].origemAlteracao = "Manual"

\* a create at the limits: a title of 100 and a description of 500 characters
C1_Witness ==
    /\ last.op = "taskCreate"
    /\ last.outcome = "ok"
    /\ Len(last.data.titulo) = 100
    /\ Len(last.data.descricao) = 500
    /\ InStore(tasks, last.id)

\* C2: a successful update whose request differs from the stored task on
\* exactly k of the five tracked fields appends exactly k entries of kind
\* Edicao, one per changed field, naming the field with its old and new value
\* as text, each with origin Manual, and none for an unchanged field.
C2_EditEntryPerChangedField ==
    UpdateSucceeded =>
        LET old == TaskById(preTasks, last.id)
            changed == Differing(old, last.data)
            edits == OfKind(NewEntries, "Edicao")
        IN  /\ LogExtended
            /\ Len(edits) = Cardinality(changed)
            /\ \A i \in 1..Len(edits) :
                   /\ edits[i].idTarefa = last.id
                   /\ edits[i].campoAlterado \in changed
                   /\ edits[i].valorAnterior = String(old[edits[i].campoAlterado])
                   /\ edits[i].valorNovo = String(last.data[edits[i].campoAlterado])
                   /\ edits[i].origemAlteracao = "Manual"
            /\ \A f \in changed :
                   Cardinality({i \in 1..Len(edits) : edits[i].campoAlterado = f}) = 1

\* an update that changed all five tracked fields
C2_Witness ==
    /\ UpdateSucceeded
    /\ Cardinality(Differing(TaskById(preTasks, last.id), last.data)) = 5
    /\ Len(OfKind(NewEntries, "Edicao")) = 5

\* C3: an update of a task with its own current values for the five tracked
\* fields appends no entry of kind Edicao, whatever the status of the task.
C3_UpdateWithOwnValues ==
    (UpdateSucceeded /\ Differing(TaskById(preTasks, last.id), last.data) = {})
    => /\ LogExtended
       /\ Len(OfKind(NewEntries, "Edicao")) = 0

\* a Concluida task updated with its own values
C3_Witness ==
    /\ UpdateSucceeded
    /\ Differing(TaskById(preTasks, last.id), last.data) = {}
    /\ TaskById(preTasks, last.id).status = Concluida
    /\ history = preHistory

\* C4: taskUpdateStatus asking for Pendente on a task that is Vencida fails
\* with alteracaoNaoPermitida and leaves the status, the last-update timestamp
\* and the log as they were.
C4_OverdueToPendingRefused ==
    (/\ last.op = "taskUpdateStatus"
     /\ last.status = Pendente
     /\ InStore(preTasks, last.id)
     /\ TaskById(preTasks, last.id).status = Vencida)
    => /\ last.outcome = "alteracaoNaoPermitida"
       /\ InStore(tasks, last.id)
       /\ TaskById(tasks, last.id).status = Vencida
       /\ TaskById(tasks, last.id).dataAtualizacao
              = TaskById(preTasks, last.id).dataAtualizacao
       /\ tasks = preTasks
       /\ history = preHistory

\* the refused call, made later than the sweep that marked the task Vencida
C4_Witness ==
    /\ last.op = "taskUpdateStatus"
    /\ last.status = Pendente
    /\ last.outcome = "alteracaoNaoPermitida"
    /\ InStore(tasks, last.id)
    /\ TaskById(tasks, last.id).status = Vencida
    /\ TaskById(tasks, last.id).dataAtualizacao < now

\* C5: for a task that is Pendente, taskUpdateStatus to Concluida and then,
\* with no other call in between, taskUpdateStatus to Pendente both succeed and
\* leave the task Pendente, whatever its due-date.
C5_CompleteThenReopen ==
    /\ (/\ last.op = "taskUpdateStatus"
        /\ last.status = Concluida
        /\ InStore(preTasks, last.id)
        /\ TaskById(preTasks, last.id).status = Pendente)
       => /\ last.outcome = "ok"
          /\ InStore(tasks, last.id)
          /\ TaskById(tasks, last.id).status = Concluida
    /\ (/\ last.op = "taskUpdateStatus"
        /\ last.status = Pendente
        /\ last.prevOp = "taskUpdateStatus"
        /\ InStore(preTasks, last.id)
        /\ TaskById(preTasks, last.id).status = Concluida
        /\ Len(preHistory) > 0
        /\ preHistory[Len(preHistory)].idTarefa = last.id
        /\ preHistory[Len(preHistory)].origemAlteracao = "Manual"
        /\ preHistory[Len(preHistory)].valorAnterior = Pendente
        /\ preHistory[Len(preHistory)].valorNovo = Concluida)
       => /\ last.outcome = "ok"
          /\ InStore(tasks, last.id)
          /\ TaskById(tasks, last.id).status = Pendente

\* the two calls made on a task whose due-moment has passed
C5_Witness ==
    /\ last.op = "taskUpdateStatus"
    /\ last.status = Pendente
    /\ last.outcome = "ok"
    /\ last.prevOp = "taskUpdateStatus"
    /\ Len(history) >= 2
    /\ LastEntries(2)[1].idTarefa = last.id
    /\ LastEntries(2)[1].valorAnterior = Pendente
    /\ LastEntries(2)[1].valorNovo = Concluida
    /\ LastEntries(2)[2].idTarefa = last.id
    /\ LastEntries(2)[2].valorAnterior = Concluida
    /\ LastEntries(2)[2].valorNovo = Pendente
    /\ TaskById(tasks, last.id).status = Pendente
    /\ TaskById(tasks, last.id).dataVencimento # Null
    /\ DueMoment(TaskById(tasks, last.id)) < now

\* the last call was a successful update of a Vencida task that changed its
\* due-date to today or a later day
DueDateMovedToTodayOrLater ==
    /\ UpdateSucceeded
    /\ TaskById(preTasks, last.id).status = Vencida
    /\ last.data.dataVencimento # TaskById(preTasks, last.id).dataVencimento
    /\ last.data.dataVencimento # Null
    /\ ParseDueDate(last.data.dataVencimento) >= StartOfDay(last.at)

\* C6: an update of a Vencida task that changes its due-date to today or a
\* later day sets the status to Pendente in that update and appends exactly one
\* entry of kind Alteracao de Status, origin Automatica, from Vencida to
\* Pendente, besides the Edicao entries of the changed fields.
C6_DueDateEditResetsOverdue ==
    DueDateMovedToTodayOrLater =>
        LET changed == Differing(TaskById(preTasks, last.id), last.data)
            flips == OfKind(NewEntries, "Alteracao de Status")
        IN  /\ TaskById(tasks, last.id).status = Pendente
            /\ LogExtended
            /\ Len(flips) = 1
            /\ flips[1].idTarefa = last.id
            /\ flips[1].origemAlteracao = "Automatica"
            /\ flips[1].valorAnterior = Vencida
            /\ flips[1].valorNovo = Pendente
            /\ Len(OfKind(NewEntries, "Edicao")) = Cardinality(changed)
            /\ Len(NewEntries) = 1 + Cardinality(changed)

\* the due-date of a Vencida task moved to the current day
C6_Witness ==
    /\ DueDateMovedToTodayOrLater
    /\ ParseDueDate(last.data.dataVencimento) = StartOfDay(now)
    /\ TaskById(tasks, last.id).status = Pendente
    /\ Len(NewEntries) >= 2

\* C7: a Vencida task becomes Pendente only by an update that changes its
\* due-date to a value that is today or later; an update that leaves the
\* due-date as stored never changes the status of a Vencida task.
C7_ResetOnlyByDueDateChange ==
    \A i \in 1..Len(preTasks) :
        (/\ preTasks[i].status = Vencida
         /\ InStore(tasks, preTasks[i].id)
         /\ TaskById(tasks, preTasks[i].id).status = Pendente)
        => /\ UpdateSucceeded
           /\ last.id = preTasks[i].id
           /\ last.data.dataVencimento # preTasks[i].dataVencimento
           /\ last.data.dataVencimento # Null
           /\ ParseDueDate(last.data.dataVencimento) >= StartOfDay(last.at)

\* C8: after taskCheckOverdue at the moment now, every task that was Pendente
\* with an effective due-moment strictly before now is Vencida, has the sweep's
\* time as last-update timestamp and one new Alteracao de Status entry; every
\* other Pendente task is as it was, with no new entry.
C8_SweepFlipsExactlyThePastDue ==
    last.op = "taskCheckOverdue" =>
        /\ Len(tasks) = Len(preTasks)
        /\ LogExtended
        /\ \A i \in 1..Len(preTasks) :
               preTasks[i].status = Pendente =>
                   IF preTasks[i].dataVencimento # Null /\ DueMoment(preTasks[i]) < last.at
                   THEN /\ tasks[i].id = preTasks[i].id
                        /\ tasks[i].status = Vencida
                        /\ tasks[i].dataAtualizacao = last.at
                        /\ Len(EntriesOf(NewEntries, preTasks[i].id)) = 1
                        /\ EntriesOf(NewEntries, preTasks[i].id)[1].tipoAlteracao
                               = "Alteracao de Status"
                   ELSE /\ tasks[i] = preTasks[i]
                        /\ Len(EntriesOf(NewEntries, preTasks[i].id)) = 0

\* a sweep that found one task past its due-moment and one exactly at it
C8_Witness ==
    /\ last.op = "taskCheckOverdue"
    /\ \E i, j \in 1..Len(preTasks) :
           /\ preTasks[i].status = Pendente
           /\ preTasks[i].dataVencimento # Null
           /\ DueMoment(preTasks[i]) < last.at
           /\ tasks[i].status = Vencida
           /\ preTasks[j].status = Pendente
           /\ preTasks[j].dataVencimento # Null
           /\ DueMoment(preTasks[j]) = last.at
           /\ tasks[j].status = Pendente

\* C9: the sweep changes no task that is Concluida or Vencida, whatever its
\* due-date, and writes no entry for it.
C9_SweepLeavesCompletedAndOverdue ==
    last.op = "taskCheckOverdue" =>
        \A i \in 1..Len(preTasks) :
            preTasks[i].status \in {Concluida, Vencida} =>
                /\ i <= Len(tasks)
                /\ tasks[i] = preTasks[i]
                /\ Len(EntriesOf(history, preTasks[i].id))
                       = Len(EntriesOf(preHistory, preTasks[i].id))

\* a sweep that found a Concluida task past its due-moment
C9_Witness ==
    /\ last.op = "taskCheckOverdue"
    /\ \E i \in 1..Len(preTasks) :
           /\ preTasks[i].status = Concluida
           /\ preTasks[i].dataVencimento # Null
           /\ DueMoment(preTasks[i]) < last.at
           /\ tasks[i].status = Concluida

\* the last two calls were sweeps made at the same moment
SweptTwice ==
    /\ last.op = "taskCheckOverdue"
    /\ last.prevOp = "taskCheckOverdue"
    /\ last.prevAt = last.at

\* C10: a second taskCheckOverdue at the same moment, with no other call in
\* between, changes no task and appends no entry.
C10_SweepIdempotent ==
    SweptTwice => /\ tasks = preTasks
                  /\ history = preHistory

\* the second sweep at a moment at which the first one flipped a task
C10_Witness ==
    /\ SweptTwice
    /\ Len(history) > 0
    /\ history[Len(history)].origemAlteracao = "Automatica"
    /\ history[Len(history)].valorNovo = Vencida
    /\ history[Len(history)].dataAlteracao = last.at
    /\ InStore(tasks, history[Len(history)].idTarefa)
    /\ TaskById(tasks, history[Len(history)].idTarefa).status = Vencida

\* the log holds an Exclusao entry for the task
Deleted(id) ==
    \E i \in 1..Len(history) :
        history[i].idTarefa = id /\ history[i].tipoAlteracao = "Exclusao"

\* two sequences hold the same elements, each as often
SameEntries(s, t) ==
    /\ Len(s) = Len(t)
    /\ \A i \in 1..Len(s) :
           Cardinality({j \in 1..Len(s) : s[j] = s[i]})
               = Cardinality({j \in 1..Len(t) : t[j] = s[i]})

\* C11: once a task has been deleted, the history request for its identifier
\* (GET /task/:id/history, no filter) still answers with every entry recorded
\* for the task, of which exactly one is of kind Exclusao, while taskGet
\* reports the task absent and no listing contains it.
C11_DeletedTaskHistoryKept ==
    \A id \in LoggedIds :
        Deleted(id) =>
            /\ (/\ query.op = "getHistoryHandler"
                /\ query.id = id
                /\ query.filters = HistoryFilters("Todas", "Todas"))
               => /\ query.outcome = "ok"
                  /\ SameEntries(query.result, EntriesOf(history, id))
                  /\ Len(OfKind(query.result, "Exclusao")) = 1
            /\ (query.op = "taskGet" /\ query.id = id) => query.outcome = "null"
            /\ query.op \in {"taskList", "listHandler"}
               => \A i \in 1..Len(query.result) : query.result[i].id # id

\* C12: the log only grows at its end: after every call the log the call
\* found is a prefix of the log it left, the entries of deleted tasks
\* included, and a call that only reads leaves the log as it found it.
C12_LogAppendOnly ==
    /\ LogExtended
    /\ query.op \in ReadOps => history = query.historyFound

\* the log read after a delete, and then written again: the entries of the
\* deleted task are still where they were
C12_Witness ==
    /\ last.op \in {"taskCreate", "taskUpdateStatus", "listHandler"}
    /\ last.outcome = "ok"
    /\ Len(history) > Len(preHistory)
    /\ \E id \in LoggedIds :
           /\ Deleted(id)
           /\ ~InStore(tasks, id)
           /\ Len(EntriesOf(preHistory, id)) >= 2
           /\ history[Len(history)].idTarefa # id

\* C13: taskGet, taskUpdate, taskUpdateStatus and taskDelete called with an
\* identifier that is not in the store return null (false for taskDelete)
\* and leave the store and the log as they were, whatever the other arguments.
C13_UnknownIdAbsent ==
    /\ (last.op \in {"taskUpdate", "taskUpdateStatus"} /\ ~InStore(preTasks, last.id))
       => /\ last.outcome = "null"
          /\ tasks = preTasks
          /\ history = preHistory
    /\ (last.op = "taskDelete" /\ ~InStore(preTasks, last.id))
       => /\ last.outcome = "false"
          /\ tasks = preTasks
          /\ history = preHistory
    /\ (query.op = "taskGet" /\ ~InStore(query.tasksFound, query.id))
       => /\ query.outcome = "null"
          /\ tasks = query.tasksFound
          /\ history = query.historyFound

\* an update of a deleted task with a request that would fail validation
C13_Witness ==
    /\ last.op = "taskUpdate"
    /\ last.outcome = "null"
    /\ Deleted(last.id)
    /\ Len(Trim(last.data.titulo)) = 0
    /\ tasks = preTasks

\* the request fails the validation of taskCreate and taskUpdate
FailsValidation(data) ==
    \/ Len(Trim(data.titulo)) = 0
    \/ Len(data.titulo) > 100
    \/ (data.descricao # Null /\ Len(data.descricao) > 500)

\* C14: a taskCreate, or a taskUpdate of a stored task, whose request has a
\* blank title, a title of more than 100 characters or a description of more
\* than 500 fails and leaves the store and the log as they were; one that does
\* not fail has stored the record and appended all its entries.
C14_ValidationAtomic ==
    /\ (/\ \/ last.op = "taskCreate"
            \/ (last.op = "taskUpdate" /\ InStore(preTasks, last.id))
         /\ FailsValidation(last.data))
       => /\ last.outcome \in {"tituloObrigatorio", "tituloMuitoLongo", "descricaoMuitoLonga"}
          /\ tasks = preTasks
          /\ history = preHistory
    /\ (last.op = "taskCreate" /\ ~FailsValidation(last.data))
       => /\ last.outcome = "ok"
          /\ Len(tasks) = Len(preTasks) + 1
          /\ SubSeq(tasks, 1, Len(preTasks)) = preTasks
          /\ tasks[Len(tasks)].id = last.id
          /\ Differing(tasks[Len(tasks)], last.data) = {}
          /\ LogExtended
          /\ Len(NewEntries) = 1
          /\ NewEntries[1].idTarefa = last.id
    /\ (/\ last.op = "taskUpdate"
         /\ InStore(preTasks, last.id)
         /\ ~FailsValidation(last.data))
       => /\ last.outcome = "ok"
          /\ Len(tasks) = Len(preTasks)
          /\ \A i \in 1..Len(tasks) :
                 IF preTasks[i].id = last.id
                 THEN /\ tasks[i].id = last.id
                      /\ Differing(tasks[i], last.data) = {}
                      /\ LogExtended
                      /\ Len(NewEntries)
                             = Cardinality(Differing(preTasks[i], last.data))
                               + (IF tasks[i].status # preTasks[i].status THEN 1 ELSE 0)
                 ELSE tasks[i] = preTasks[i]

\* an update refused for its description, of a task that has been changed before
C14_Witness ==
    /\ last.op = "taskUpdate"
    /\ last.outcome = "descricaoMuitoLonga"
    /\ InStore(tasks, last.id)
    /\ Len(EntriesOf(history, last.id)) >= 2
    /\ tasks = preTasks
    /\ history = preHistory

\* a store: the tasks and the log
Store(ts, hist) == [tasks |-> ts, history |-> hist]

\* a log without the identifiers of its entries
NoIds(hist) == [i \in 1..Len(hist) |-> [hist[i] EXCEPT !.id = 0]]

\* the store a call leaves when it runs from its first to its last statement
\* with no other call in between; the identifiers of the entries are left out
RunAlone(st, call) ==
    LET ts == st.tasks
        hist == st.history
        taskIndex == FindIndex(ts, call.id)
    IN  CASE call.op = "taskCreate" ->
                IF CreateValidation(call.data) # "ok" THEN st
                ELSE Store(Append(ts, NewTask(call.uuid, call.data, call.at)),
                           recordHistory(hist, 0, call.at, call.uuid,
                                         "Criacao", Null, Null, Null, "Manual"))
          [] call.op = "taskUpdate" ->
                IF taskIndex = 0 \/ UpdateValidation(call.data) # "ok" THEN st
                ELSE LET updated == UpdatedTask(ts[taskIndex], call.data, call.at)
                         reset == ResetsStatus(updated, call.data, call.at)
                         hist1 == IF reset
                                  THEN recordHistory(hist, 0, call.at, call.id,
                                                     "Alteracao de Status", "status",
                                                     Vencida, Pendente, "Automatica")
                                  ELSE hist
                     IN  Store([ts EXCEPT ![taskIndex] =
                                   IF reset THEN [updated EXCEPT !.status = Pendente]
                                   ELSE updated],
                               RecordChanges(hist1, 0, call.at, call.id,
                                             ChangedFields(ts[taskIndex], call.data), 1))
          [] call.op = "taskDelete" ->
                IF taskIndex = 0 THEN st
                ELSE Store(Splice(ts, taskIndex),
                           recordHistory(hist, 0, call.at, call.id,
                                         "Exclusao", Null, Null, Null, "Manual"))
          [] call.op = "taskUpdateStatus" ->
                IF taskIndex = 0 \/ StatusChangeForbidden(ts[taskIndex].status, call.status)
                THEN st
                ELSE Store([ts EXCEPT ![taskIndex].status = call.status,
                                      ![taskIndex].dataAtualizacao = call.at],
                           recordHistory(hist, 0, call.at, call.id,
                                         "Alteracao de Status", "status",
                                         ts[taskIndex].status, call.status, "Manual"))
          [] call.op = "taskCheckOverdue" ->
                LET r == CheckOverdueFrom(ts, hist, 0, call.at, 1)
                IN  Store(r.tasks, r.history)

\* the store the calls made leave when they run one after the other, in the
\* order given, from the k-th on
RECURSIVE RunInOrder(_, _, _)
RunInOrder(st, order, k) ==
    IF k > Len(started) THEN st
    ELSE RunInOrder(RunAlone(st, started[order[k]]), order, k + 1)

\* the store is the one some order of the calls, each run alone, leaves
Serializable ==
    \E order \in Permutations(1..Len(started)) :
        LET st == RunInOrder(Store(<<>>, <<>>), order, 1)
        IN  /\ st.tasks = tasks
            /\ NoIds(st.history) = NoIds(history)

\* C15: the writing operations are atomic: when calls are in progress at once
\* and interleave at their awaits, then once all of them have returned the
\* store and the log are those that the same calls leave in some order in
\* which each runs alone from its first read to its last write.
C15_CallsAtomic ==
    (Len(queue) = 0 /\ Len(started) > 0) => Serializable

\* the last call was a list request, and its answer is the last read
Listed == last.op = "listHandler" /\ query.op = "listHandler"

\* a query that filters nothing out
KeepsAll(f) ==
    /\ f.filterStatus = "Todas"
    /\ f.filterImportance = "Todas"
    /\ f.filterPeriod = "Todas"
    /\ f.searchTerm = Null

\* the entries of a log that record an automatic status change of one task
AutomaticFlips(hist, id) ==
    SelectSeq(hist, LAMBDA e : /\ e.idTarefa = id
                               /\ e.tipoAlteracao = "Alteracao de Status"
                               /\ e.origemAlteracao = "Automatica")

\* the task was created the day after its due-date
DueTheDayBeforeCreation(task) ==
    /\ task.dataVencimento # Null
    /\ ParseDueDate(task.dataVencimento) + 86400 = StartOfDay(task.dataCriacao)

\* C16: a list request sweeps before it lists: no task it returns is Pendente
\* with an effective due-moment strictly before the moment of the request, and
\* a task created with a due-date of the day before, not touched since, is
\* returned by a request that filters nothing out as Vencida, with exactly one
\* Alteracao de Status entry of origin Automatica in its history.
C16_ListingSweepsFirst ==
    Listed =>
        /\ \A j \in 1..Len(query.result) :
               ~(/\ query.result[j].status = Pendente
                 /\ query.result[j].dataVencimento # Null
                 /\ DueMoment(query.result[j]) < last.at)
        /\ \A i \in 1..Len(preTasks) :
               (/\ DueTheDayBeforeCreation(preTasks[i])
                /\ Len(EntriesOf(preHistory, preTasks[i].id)) = 1
                /\ KeepsAll(query.filters))
               => /\ \E j \in 1..Len(query.result) :
                         /\ query.result[j].id = preTasks[i].id
                         /\ query.result[j].status = Vencida
                  /\ Len(AutomaticFlips(history, preTasks[i].id)) = 1
                  /\ Len(EntriesOf(history, preTasks[i].id)) = 2

\* the list request that follows the creation of a task due the day before
C16_Witness ==
    /\ Listed
    /\ last.prevOp = "taskCreate"
    /\ KeepsAll(query.filters)
    /\ \E j \in 1..Len(query.result) :
           /\ DueTheDayBeforeCreation(query.result[j])
           /\ query.result[j].status = Vencida
           /\ query.result[j].dataAtualizacao = last.at
           /\ Len(AutomaticFlips(NewEntries, query.result[j].id)) = 1

\* the status a status filter of a list request selects
SelectedStatus(label) ==
    CASE label = "Pendentes" -> Pendente
      [] label = "Concluidas" -> Concluida
      [] label = "Vencidas" -> Vencida

\* C17: a list request whose status filter selects a status, with the other
\* filters at Todas and no search term, returns exactly the stored tasks that
\* have this status.
C17_StatusFilterExact ==
    (/\ Listed
     /\ query.filters.filterStatus \in {"Pendentes", "Concluidas", "Vencidas"}
     /\ query.filters.filterImportance = "Todas"
     /\ query.filters.filterPeriod = "Todas"
     /\ query.filters.searchTerm = Null)
    => /\ \A j \in 1..Len(query.result) :
              query.result[j].status = SelectedStatus(query.filters.filterStatus)
       /\ \A i \in 1..Len(tasks) :
              tasks[i].status = SelectedStatus(query.filters.filterStatus)
              => \E j \in 1..Len(query.result) : query.result[j] = tasks[i]

\* the last read was a listing, by the service or by the request handler
ListedOrRead == query.op \in {"taskList", "listHandler"}

\* C18: in a listing sorted by due-date, in either direction, no task without
\* a due-date comes before a task that has one.
C18_UndatedLast ==
    (ListedOrRead /\ query.filters.orderBy = "Data de vencimento")
    => \A i, j \in 1..Len(query.result) :
           i < j => ~(/\ query.result[i].dataVencimento = Null
                      /\ query.result[j].dataVencimento # Null)

\* Alta before Media before Baixa
ImportanceRank(importancia) ==
    IF importancia = "Alta" THEN 1 ELSE IF importancia = "Media" THEN 2 ELSE 3

\* the place of a task in the store the listing read
PlaceInStore(id) == CHOOSE k \in 1..Len(query.tasksFound) : query.tasksFound[k].id = id

\* C19: a listing ordered by Importancia returns, with direction Crescente,
\* Alta before Media before Baixa and, with direction Decrescente, the
\* reverse; in both, tasks of equal importance keep their order of the store.
C19_ImportanceOrderStable ==
    (ListedOrRead /\ query.filters.orderBy = "Importancia")
    => \A i, j \in 1..Len(query.result) :
           i < j =>
               LET a == ImportanceRank(query.result[i].importancia)
                   b == ImportanceRank(query.result[j].importancia)
               IN  /\ query.filters.orderDirection = "Crescente" => a <= b
                   /\ query.filters.orderDirection = "Decrescente" => a >= b
                   /\ a = b => PlaceInStore(query.result[i].id)
                                   < PlaceInStore(query.result[j].id)

\* two tasks of the same importance listed in decreasing order of importance:
\* they come in the order of the store
C19_Witness ==
    /\ query.op = "taskList"
    /\ query.filters.orderBy = "Importancia"
    /\ query.filters.orderDirection = "Decrescente"
    /\ Len(query.result) = 2
    /\ Len(query.tasksFound) = 2
    /\ query.result[1].importancia = query.result[2].importancia
    /\ query.result[1].id # query.result[2].id
    /\ query.result[1] = query.tasksFound[1]

\* C20: taskList leaves the store and the log as it found them, whatever the
\* query, and returns only tasks that are in the store.
C20_ListLeavesStore ==
    query.op = "taskList"
    => /\ tasks = query.tasksFound
       /\ history = query.historyFound
       /\ \A j \in 1..Len(query.result) :
              \E i \in 1..Len(tasks) : tasks[i] = query.result[j]

\* a listing that returned the tasks in another order than the store keeps them
C20_Witness ==
    /\ query.op = "taskList"
    /\ Len(query.result) = Len(tasks)
    /\ Len(tasks) >= 2
    /\ query.result # tasks
    /\ tasks = query.tasksFound

\* the periods that are bound to a date
DatedPeriods == {"Hoje", "Esta semana", "Este mes", "Proximas ao vencimento", "Vencidas"}

\* C21: in every state of the store, taskList with a period filter other than
\* Sem data and Todas (Hoje, Esta semana, Este mes, Proximas ao vencimento,
\* Vencidas) returns no task without a due-date.
C21_DatedPeriodsExcludeUndated ==
    \A period \in DatedPeriods :
        LET result == TaskListResult(tasks, [AllTasks EXCEPT !.filterPeriod = period], now)
        IN  \A j \in 1..Len(result) : Truthy(result[j].dataVencimento)

\* the entry passes a filter of taskGetHistory: a filter that is absent or
\* Todas passes every entry
PassesFilter(value, filter) == filter \in {Null, "Todas"} \/ value = filter

\* the entries of the log taskGetHistory is asked for
Matching(hist, idTarefa, f) ==
    SelectSeq(hist, LAMBDA e : /\ e.idTarefa = idTarefa
                               /\ PassesFilter(e.tipoAlteracao, f.filterTipo)
                               /\ PassesFilter(e.origemAlteracao, f.filterOrigem))

\* C22: taskGetHistory returns exactly the entries of the log that refer to
\* the task and pass the filter on the kind and the filter on the origin (an
\* absent filter and Todas pass everything), each once, the more recent first:
\* no entry comes after an entry with an earlier change timestamp.
C22_HistoryExactAndRecentFirst ==
    query.op = "taskGetHistory"
    => /\ SameEntries(query.result, Matching(history, query.id, query.filters))
       /\ \A i, j \in 1..Len(query.result) :
              i < j => query.result[i].dataAlteracao >= query.result[j].dataAlteracao

\* the history of a task read with a filter on the origin: the entries come
\* back in another order than the log keeps them, the later one first
C22_Witness ==
    /\ query.op = "taskGetHistory"
    /\ query.filters.filterOrigem = "Manual"
    /\ Len(query.result) >= 2
    /\ query.result[1].dataAlteracao > query.result[2].dataAlteracao
    /\ query.result # EntriesOf(history, query.id)

\* the entries of kind Alteracao de Status the last call appended
NewStatusEntries == OfKind(NewEntries, "Alteracao de Status")

\* an entry of kind Alteracao de Status for one task, from one status to another
StatusEntry(e, id, anterior, novo, origem) ==
    /\ e.idTarefa = id
    /\ e.tipoAlteracao = "Alteracao de Status"
    /\ e.campoAlterado = "status"
    /\ e.valorAnterior = anterior
    /\ e.valorNovo = novo
    /\ e.origemAlteracao = origem

\* the places of the store at which the last call changed the status
StatusChanged ==
    {i \in 1..Len(preTasks) : i <= Len(tasks) /\ tasks[i].id = preTasks[i].id
                                              /\ tasks[i].status # preTasks[i].status}

\* C23: a taskUpdateStatus that succeeds appends exactly one Alteracao de
\* Status entry, of origin Manual, with the old and the new status; the sweep
\* appends exactly one, of origin Automatica, for each task it flips; a
\* taskUpdate appends exactly one, of origin Automatica, when it resets a
\* Vencida task to Pendente; no other call appends an entry of this kind.
C23_StatusEntries ==
    /\ LogExtended
    /\ (last.op = "taskUpdateStatus" /\ last.outcome = "ok")
       => /\ Len(NewStatusEntries) = 1
          /\ Len(NewEntries) = 1
          /\ StatusEntry(NewEntries[1], last.id, TaskById(preTasks, last.id).status,
                         last.status, "Manual")
          /\ TaskById(tasks, last.id).status = last.status
    /\ last.op = "taskCheckOverdue"
       => /\ Len(NewStatusEntries) = Cardinality(StatusChanged)
          /\ Len(NewEntries) = Len(NewStatusEntries)
          /\ \A i \in StatusChanged :
                 /\ Len(EntriesOf(NewEntries, tasks[i].id)) = 1
                 /\ StatusEntry(EntriesOf(NewEntries, tasks[i].id)[1], tasks[i].id,
                                Pendente, Vencida, "Automatica")
    /\ UpdateSucceeded
       => IF /\ TaskById(preTasks, last.id).status = Vencida
             /\ TaskById(tasks, last.id).status = Pendente
          THEN /\ Len(NewStatusEntries) = 1
               /\ StatusEntry(NewStatusEntries[1], last.id, Vencida, Pendente, "Automatica")
          ELSE /\ Len(NewStatusEntries) = 0
               /\ TaskById(tasks, last.id).status = TaskById(preTasks, last.id).status
    /\ ~(\/ last.op = "taskUpdateStatus" /\ last.outcome = "ok"
         \/ last.op = "taskCheckOverdue"
         \/ UpdateSucceeded)
       => Len(NewStatusEntries) = 0

\* a sweep that flipped two tasks and recorded one entry for each
C23_Witness ==
    /\ last.op = "taskCheckOverdue"
    /\ Cardinality(StatusChanged) = 2
    /\ Len(NewStatusEntries) = 2
    /\ NewStatusEntries[1].idTarefa # NewStatusEntries[2].idTarefa
    /\ NewStatusEntries[1].origemAlteracao = "Automatica"
    /\ NewStatusEntries[2].origemAlteracao = "Automatica"

\* the last call reached the service through updateStatusHandler or was
\* answered by it
StatusRequested == last.op \in {"updateStatusHandler", "taskUpdateStatus"}

\* the stored tasks that are Vencida and were not when the last call began
BecameOverdue ==
    {i \in 1..Len(tasks) :
        /\ tasks[i].status = Vencida
        /\ ~(InStore(preTasks, tasks[i].id)
             /\ TaskById(preTasks, tasks[i].id).status = Vencida)}

\* C24: a task becomes Vencida only through the sweep: a status request
\* (PATCH /task/:id/status) that names Vencida is refused and leaves the
\* store and the log as they were, whether the task is Pendente or Concluida,
\* and no request other than the one that sweeps leaves a task Vencida that
\* was not.
C24_OverdueOnlyBySweep ==
    /\ (StatusRequested /\ last.status = Vencida)
       => /\ last.op = "updateStatusHandler"
          /\ last.outcome = "VALIDATION_ERROR"
          /\ tasks = preTasks
          /\ history = preHistory
    /\ BecameOverdue # {} => last.op = "listHandler"
    /\ \A i \in BecameOverdue :
           /\ InStore(preTasks, tasks[i].id)
           /\ TaskById(preTasks, tasks[i].id).status = Pendente
           /\ Len(AutomaticFlips(NewEntries, tasks[i].id)) = 1

\* a status request naming Vencida, refused for a task that is Concluida
C24_Witness ==
    /\ last.op = "updateStatusHandler"
    /\ last.status = Vencida
    /\ last.outcome = "VALIDATION_ERROR"
    /\ InStore(tasks, last.id)
    /\ TaskById(tasks, last.id).status = Concluida

\* the last call was a create, update, status change or delete that succeeded
Succeeded ==
    /\ last.op \in {"taskCreate", "taskUpdate", "taskUpdateStatus", "taskDelete"}
    /\ last.outcome \in {"ok", "true"}

\* C25: every create, update, status change and delete that succeeds appends
\* at least one entry for its task, and no update that succeeds leaves the
\* stored record different from what it was, its last-update timestamp
\* included, without having appended an entry for it.
C25_EveryChangeLogged ==
    /\ Succeeded
       => /\ LogExtended
          /\ Len(EntriesOf(NewEntries, last.id)) >= 1
    /\ (UpdateSucceeded /\ TaskById(tasks, last.id) # TaskById(preTasks, last.id))
       => Len(EntriesOf(NewEntries, last.id)) >= 1

\* C26: in every state every stored task has a title that is not empty, not
\* made of whitespace only and at most 100 characters long, and a description
\* that is absent or at most 500 characters long.
C26_StoredTextWithinLimits ==
    \A i \in 1..Len(tasks) :
        /\ tasks[i].titulo # Null
        /\ Len(tasks[i].titulo) >= 1
        /\ Len(Trim(tasks[i].titulo)) >= 1
        /\ Len(tasks[i].titulo) <= 100
        /\ tasks[i].descricao = Null \/ Len(tasks[i].descricao) <= 500

\* a task stored at both limits, after an update with a title of 101
\* characters was refused
C26_Witness ==
    /\ last.op = "taskUpdate"
    /\ last.outcome = "tituloMuitoLongo"
    /\ Len(last.data.titulo) = 101
    /\ InStore(tasks, last.id)
    /\ Len(TaskById(tasks, last.id).titulo) = 100
    /\ Len(TaskById(tasks, last.id).descricao) = 500

\* C27: the identifier and the creation timestamp of a task never change: a
\* task the last call found and left in the store has the creation timestamp
\* it had, a task the call added has the time of the call, and no call but a
\* delete moves an identifier to another place; every call that changes a stored task
\* (update, status change, flip by the sweep, reset by an update), and every
\* update and status change that succeeds, leaves the time of the call as its
\* last-update timestamp.
C27_IdentityAndTimestamps ==
    /\ \A i \in 1..Len(preTasks) :
           InStore(tasks, preTasks[i].id) =>
               LET task == TaskById(tasks, preTasks[i].id)
               IN  /\ task.dataCriacao = preTasks[i].dataCriacao
                   /\ task # preTasks[i] => task.dataAtualizacao = last.at
    /\ last.op # "taskDelete"
       => \A i \in 1..Len(preTasks) : i <= Len(tasks) /\ tasks[i].id = preTasks[i].id
    /\ \A i \in 1..Len(tasks) :
           /\ ~InStore(preTasks, tasks[i].id) => tasks[i].dataCriacao = last.at
           /\ tasks[i].dataAtualizacao >= tasks[i].dataCriacao
    /\ (UpdateSucceeded \/ (last.op = "taskUpdateStatus" /\ last.outcome = "ok"))
       => TaskById(tasks, last.id).dataAtualizacao = last.at

\* a task created at one moment, flipped by the sweep at a later one and reset
\* by an update at a third: each change left its time, the creation time stayed
C27_Witness ==
    /\ UpdateSucceeded
    /\ TaskById(preTasks, last.id).status = Vencida
    /\ TaskById(tasks, last.id).status = Pendente
    /\ TaskById(tasks, last.id).dataCriacao < TaskById(preTasks, last.id).dataAtualizacao
    /\ TaskById(preTasks, last.id).dataAtualizacao < TaskById(tasks, last.id).dataAtualizacao
    /\ TaskById(tasks, last.id).dataAtualizacao = now

\* the last request was a POST /task or a PUT /task/:id: answered by the
\* handler itself, or passed on to the service
WriteRequested == last.op \in {"createHandler", "updateHandler", "taskCreate", "taskUpdate"}

\* the handler answered the last request itself
AnsweredByHandler == last.op \in {"createHandler", "updateHandler"}

\* the calendar day of an instant
DayOf(t) == t \div 86400

\* the request names a due-date
HasDueDate(data) == data.dataVencimento # Null /\ data.dataVencimento # ""

\* C28: a create or update request that the schema accepts and whose due-date
\* is a calendar day before today is answered by the handler with
\* dataVencimentoPassado, the service is not called and the store and the log
\* stay as they were; one whose due-date is today or later is passed on to the
\* service, whatever its due-time, and a create with today's date and a
\* non-blank title stores the task.
C28_PastDueDateRefused ==
    /\ (/\ WriteRequested
         /\ BodyAccepted(last.data)
         /\ HasDueDate(last.data)
         /\ DayOf(ParseDueDate(last.data.dataVencimento)) < DayOf(last.at))
       => /\ AnsweredByHandler
          /\ last.outcome = "dataVencimentoPassado"
          /\ tasks = preTasks
          /\ history = preHistory
    /\ (/\ WriteRequested
         /\ BodyAccepted(last.data)
         /\ HasDueDate(last.data)
         /\ DayOf(ParseDueDate(last.data.dataVencimento)) >= DayOf(last.at))
       => /\ ~AnsweredByHandler
          /\ last.outcome # "dataVencimentoPassado"
          /\ (last.op = "taskCreate" /\ Len(Trim(last.data.titulo)) > 0)
             => /\ last.outcome = "ok"
                /\ InStore(tasks, last.id)
                /\ TaskById(tasks, last.id).dataVencimento = last.data.dataVencimento
                /\ TaskById(tasks, last.id).horaVencimento = last.data.horaVencimento
    /\ (WriteRequested /\ ~BodyAccepted(last.data))
       => /\ AnsweredByHandler
          /\ last.outcome = "VALIDATION_ERROR"
          /\ tasks = preTasks
          /\ history = preHistory

\* an update with the task's own due-date, accepted on the day of the
\* due-date after the due-time had passed, then refused the day after
C28_Witness ==
    /\ last.op = "updateHandler"
    /\ last.outcome = "dataVencimentoPassado"
    /\ last.prevOp = "taskUpdate"
    /\ InStore(tasks, last.id)
    /\ TaskById(tasks, last.id).dataVencimento = last.data.dataVencimento
    /\ TaskById(tasks, last.id).dataAtualizacao = last.prevAt
    /\ DayOf(ParseDueDate(last.data.dataVencimento)) = DayOf(last.prevAt)
    /\ DueMoment(TaskById(tasks, last.id)) < last.prevAt
    /\ DayOf(last.prevAt) < DayOf(last.at)

\* the task is Pendente, has a due-date, and its effective due-moment, the one
\* of the sweep, lies within the 48 hours that follow the moment t
DueSoon(task, t) ==
    /\ task.status = Pendente
    /\ Truthy(task.dataVencimento)
    /\ DueMoment(task) >= t
    /\ DueMoment(task) <= t + 48 * 60 * 60

\* C29: taskList with the period Proximas ao vencimento, the other filters at
\* Todas and no search term, returns exactly the stored tasks that are
\* Pendente, have a due-date and whose effective due-moment (the due-date at
\* the due-time, or at 23:59:59 with no due-time, as in the sweep) lies within
\* [now, now + 48h]; a Pendente task due today with no due-time is returned.
C29_DueSoonUsesDueMoment ==
    (/\ query.op = "taskList"
     /\ query.filters = [AllTasks EXCEPT !.filterPeriod = "Proximas ao vencimento"])
    => SameEntries(query.result,
                   SelectSeq(query.tasksFound, LAMBDA task : DueSoon(task, query.at)))

\* a delete of the task is suspended at its await: its entry is written, the
\* task not yet removed
DeleteInProgress(id) ==
    \E k \in 1..Len(queue) : queue[k].op = "taskDelete" /\ queue[k].id = id

\* C30: the Exclusao entry is written before the task is removed, and only
\* for a task that exists: in every state the log holds at most one Exclusao
\* entry for an identifier, none for an identifier that was never created, and
\* a task with an Exclusao entry is not in the store once no delete of it is
\* in progress.
C30_OneDeletionEntry ==
    \A id \in LoggedIds :
        /\ Len(OfKind(EntriesOf(history, id), "Exclusao")) <= 1
        /\ Deleted(id) => EntriesOf(history, id)[1].tipoAlteracao = "Criacao"
        /\ (Deleted(id) /\ ~DeleteInProgress(id)) => ~InStore(tasks, id)

\* the task was marked Vencida and every entry recorded for it since then is
\* an explicit status change
OnlyStatusRequestsSinceOverdue(id) ==
    LET es == EntriesOf(history, id)
    IN  \E i \in 1..Len(es) :
            /\ es[i].tipoAlteracao = "Alteracao de Status"
            /\ es[i].valorNovo = Vencida
            /\ \A j \in (i + 1)..Len(es) :
                   /\ es[j].tipoAlteracao = "Alteracao de Status"
                   /\ es[j].origemAlteracao = "Manual"

\* taskUpdateStatus(task.id, Pendente) would be carried out on the stored task
ReopenAccepted(task) == ~StatusChangeForbidden(task.status, Pendente)

\* C31: explicit status changes alone never take a task that is Vencida to
\* Pendente: a stored task that was marked Vencida and has since seen explicit
\* status changes only is not Pendente, and a request to make it Pendente is
\* refused; Vencida to Concluida to Pendente by two requests is not possible.
C31_NoReopenByStatusRequests ==
    \A i \in 1..Len(tasks) :
        OnlyStatusRequestsSinceOverdue(tasks[i].id)
        => /\ tasks[i].status # Pendente
           /\ ~ReopenAccepted(tasks[i])

\* the identifiers the log holds an entry of the given kind for
IdsWith(hist, tipo) == {hist[i].idTarefa : i \in {j \in 1..Len(hist) : hist[j].tipoAlteracao = tipo}}

\* the last two calls made were deletes of two different tasks, each found its
\* task and recorded its deletion, no other deletion was ever recorded, and
\* both calls have returned
TwoDeletesReturned ==
    /\ Len(queue) = 0
    /\ Len(started) >= 2
    /\ Len(history) >= 2
    /\ LET d1 == started[Len(started) - 1]
           d2 == started[Len(started)]
       IN  /\ d1.op = "taskDelete"
           /\ d2.op = "taskDelete"
           /\ d1.id # d2.id
           /\ LastEntries(2)[1].tipoAlteracao = "Exclusao"
           /\ LastEntries(2)[1].idTarefa = d1.id
           /\ LastEntries(2)[2].tipoAlteracao = "Exclusao"
           /\ LastEntries(2)[2].idTarefa = d2.id
    /\ Len(OfKind(history, "Exclusao")) = 2

\* C32: when two deletes of two different stored tasks are in progress at once
\* and interleave at their awaits, then once both have returned exactly those
\* two tasks are gone from the store and every other task created is still in
\* it: a delete removes no task but the one whose identifier it was given.
C32_DeletesRemoveTheirOwnTask ==
    TwoDeletesReturned
    => TaskIds = IdsWith(history, "Criacao") \ IdsWith(history, "Exclusao")

\* the status the log gives a task: the new value of the entry of kind
\* Alteracao de Status recorded last for it, Pendente if there is none
LoggedStatus(hist, id) ==
    LET es == OfKind(EntriesOf(hist, id), "Alteracao de Status")
    IN  IF Len(es) = 0 THEN Pendente ELSE es[Len(es)].valorNovo

\* C33: in every reachable state the status of every stored task is the new
\* value of the entry of kind Alteracao de Status recorded last for it, or
\* Pendente when the log holds no such entry for it.
C33_StatusAgreesWithLog ==
    \A i \in 1..Len(tasks) : tasks[i].status = LoggedStatus(history, tasks[i].id)

\* a task marked Vencida by the sweep and reset to Pendente by an update of its
\* due-date: the log holds both entries and the task is Pendente again
C33_Witness ==
    \E i \in 1..Len(tasks) :
        LET es == OfKind(EntriesOf(history, tasks[i].id), "Alteracao de Status")
        IN  /\ Len(es) = 2
            /\ es[1].valorNovo = Vencida
            /\ es[2].valorAnterior = Vencida
            /\ es[2].valorNovo = Pendente
            /\ es[2].origemAlteracao = "Automatica"
            /\ tasks[i].status = Pendente

\* C34: in every reachable state every stored task whose status is Vencida has
\* a due-date: no sequence of operations leaves a Vencida task without one.
C34_OverdueTaskHasDueDate ==
    \A i \in 1..Len(tasks) :
        tasks[i].status = Vencida => Truthy(tasks[i].dataVencimento)

\* C35: every entry of kind Alteracao de Status in the log records a real
\* change: its previous value differs from its new value, also after a status
\* request that names the status the task already has.
C35_StatusEntriesRecordChange ==
    \A i \in 1..Len(history) :
        history[i].tipoAlteracao = "Alteracao de Status"
        => history[i].valorAnterior # history[i].valorNovo

\* C36: taskUpdate never changes the status of a task that is Pendente or
\* Concluida, whatever the values it is given, a due-date in the past
\* included; the only change of status an update makes is from Vencida to
\* Pendente, on the task it was given.
C36_UpdateKeepsStatus ==
    last.op = "taskUpdate"
    => /\ Len(tasks) = Len(preTasks)
       /\ \A i \in 1..Len(preTasks) :
              \/ tasks[i].status = preTasks[i].status
              \/ /\ preTasks[i].status = Vencida
                 /\ tasks[i].status = Pendente
                 /\ tasks[i].id = last.id

\* a Pendente task given a due-date whose moment has passed, and still Pendente
C36_Witness ==
    /\ UpdateSucceeded
    /\ TaskById(preTasks, last.id).status = Pendente
    /\ last.data.dataVencimento # TaskById(preTasks, last.id).dataVencimento
    /\ last.data.dataVencimento # Null
    /\ ParseDueDate(last.data.dataVencimento) < StartOfDay(last.at)
    /\ TaskById(tasks, last.id).status = Pendente

\* a delete of the task has recorded its entry and returned
DeleteReturned(id) == Deleted(id) /\ ~DeleteInProgress(id)

\* the log holds one entry of kind Criacao for the identifier, recorded first
CreatedOnceAndFirst(id) ==
    /\ Len(OfKind(EntriesOf(history, id), "Criacao")) = 1
    /\ EntriesOf(history, id)[1].tipoAlteracao = "Criacao"

\* no entry is recorded in this step for a task whose delete has returned
DeletedTaskLogClosed ==
    \A id \in LoggedIds :
        DeleteReturned(id) => EntriesOf(history', id) = EntriesOf(history, id)

\* C37: for every task created the log holds exactly one entry of kind Criacao,
\* which is the first entry recorded for it; and once the delete of a task has
\* returned no entry is recorded for it any more, so that its Exclusao entry
\* stays the last one.
C37_CreationFirstDeletionLast ==
    /\ [](\A id \in LoggedIds : CreatedOnceAndFirst(id))
    /\ [][DeletedTaskLogClosed]_vars

\* a sequence read from its last element to its first
Reversed(es) == [i \in 1..Len(es) |-> es[Len(es) + 1 - i]]

\* the last read was a read of a history that filtered nothing out
HistoryReadUnfiltered ==
    /\ query.op \in {"taskGetHistory", "getHistoryHandler"}
    /\ query.outcome = "ok"
    /\ query.filters \in {HistoryFilters(Null, Null), HistoryFilters("Todas", "Todas")}

\* C38: the history of a task read with no filter comes back in the reverse
\* of the order of recording: an entry recorded later never comes after an
\* entry recorded earlier, also when several entries carry the same change
\* timestamp (the entries of one update, a create followed at once by a
\* delete).
C38_HistoryInReverseOfRecording ==
    HistoryReadUnfiltered
    => query.result = Reversed(EntriesOf(history, query.id))

=============================================================================
